---- MODULE Spec2Model ----
(***************************************************************************)
(* A model of the conversational presentation agent of src/pptmaker_x.py   *)
(* (ConversationalPPTAgent and TemplatePPTGenerator) and of the JSON       *)
(* extraction of src/ppt_generator.py.                                     *)
(*                                                                         *)
(* Texts returned by the generation service are sequences of tokens:       *)
(*   FENCE  the three back-ticks          LABEL  the word json             *)
(*   WS     one whitespace character      JUNK   a word that is not JSON   *)
(*   BRACE  the character {               a "doc" token: the serialization *)
(*                                        of one JSON value                *)
(* A JSON value is [t |-> "obj", v |-> dict] or [t |-> "arr", v |-> seq];  *)
(* a dict is a function from its keys (strings) to values, as a Python     *)
(* dict; Python's None is [t |-> "none"].                                  *)
(***************************************************************************)
EXTENDS Integers, Sequences, FiniteSets, TLC

VARIABLES
    templates,       \* theme keys whose template file exists on disk
    outline,         \* ConversationalPPTAgent.outline
    theme,           \* ConversationalPPTAgent.theme
    slides_content,  \* ConversationalPPTAgent.slides_content
    ppt_generator,   \* ConversationalPPTAgent.ppt_generator (TemplatePPTGenerator)
    file,            \* the presentation file at the output path
    last,            \* the last call: operation, argument, result
    reqlog,          \* content requests of the last generate_content call
    built,           \* record indices for which a build call returned a path
    theme_changes,   \* theme changes made through feedback
    repeats,         \* calls that replaced an outline, a generator or records
    text,            \* _extract_json: the text under extraction
    extracted,       \* _extract_json: its payload and result
    record,          \* _populate_slide_content: the record to render
    rendered,        \* copy_slide: the slide made for the record
    fills,           \* how often the slide was populated
    bullet,          \* a bullet string of the one-shot renderers
    runs,            \* the runs added to the paragraph of the bullet
    request,         \* create_presentation_from_template: its arguments
    PEXELS_AVAILABLE, \* ppt_generator.PEXELS_AVAILABLE
    deck,            \* what create_presentation_from_template produced
    converted,       \* what convert_html_style_to_pptx produced
    page,            \* what create_html_presentation produced
    browser,         \* the generated page when it is open: its script state
    job,             \* a generation run: topic, file name, format
    run_result,      \* the files the run wrote and how it ended
    slide_title,     \* extract_search_keywords: its argument
    search_query     \* extract_search_keywords: its result

vars == <<templates, outline, theme, slides_content, ppt_generator, file, last,
          reqlog, built, theme_changes, repeats, text, extracted, record, rendered,
          fills, bullet, runs, request, PEXELS_AVAILABLE, deck, converted,
          page, browser, job, run_result, slide_title, search_query>>

agentVars == <<templates, outline, theme, slides_content, ppt_generator, file,
               last, reqlog, built, theme_changes, repeats>>

extractVars == <<text, extracted>>

renderVars == <<record, rendered, fills>>

boldVars == <<bullet, runs>>

deckVars == <<request, PEXELS_AVAILABLE, deck>>

emitVars == <<converted, page, browser>>

appVars == <<job, run_result>>

keywordVars == <<slide_title, search_query>>

\* what the agent's operations leave alone
pureVars == <<extractVars, renderVars, boldVars, deckVars, emitVars, appVars,
              keywordVars>>

----------------------------------------------------------------------------
(* Bounds of the model *)

MaxSlides == 2      \* num_slides ranges over 1..MaxSlides
MaxDoc == 2         \* slides the in-memory document may hold
MaxThemeChanges == 1 \* theme changes through feedback in a session
MaxRepeats == 1     \* calls that replace an outline, a generator or records
MaxPending == 2     \* fullscreen calls in flight in the browser
MaxText == 5        \* tokens of a text under extraction

----------------------------------------------------------------------------
(* Python values *)

None == [t |-> "none"]
Obj(d) == [t |-> "obj", v |-> d]
Arr(s) == [t |-> "arr", v |-> s]
EmptyDict == <<>>
IsObj(x) == x.t = "obj"
IsArr(x) == x.t = "arr"

\* dict.get(key, default)
Get(d, key, default) == IF key \in DOMAIN d THEN d[key] ELSE default

\* Python's truth value of None, a dict or a list
Truthy(x) == x.t # "none" /\ x.v # <<>>

\* Python's list index: a negative index counts from the end; 0 when the
\* index is out of range (IndexError), else the 1-based position
PyIndex(idx, len) ==
    IF idx >= 0 THEN (IF idx < len THEN idx + 1 ELSE 0)
    ELSE (IF len + idx >= 0 THEN len + idx + 1 ELSE 0)

----------------------------------------------------------------------------
(* Tokens of a service text *)

FENCE == [k |-> "fence"]
LABEL == [k |-> "json"]
WS == [k |-> "ws"]
JUNK == [k |-> "junk"]
BRACE == [k |-> "brace"]
DocTok(value) == [k |-> "doc", v |-> value]

IsDoc(tok) == tok.k = "doc"

\* "{" in token: a brace, or the serialization of a JSON object
HasBrace(tok) == tok.k = "brace" \/ (IsDoc(tok) /\ IsObj(tok.v))

----------------------------------------------------------------------------
(* str.split, str.strip and json.loads on token sequences *)

\* the positions at which sep occurs in s
Occurrences(s, sep) ==
    {j \in 1..(Len(s) - Len(sep) + 1) : SubSeq(s, j, j + Len(sep) - 1) = sep}

\* sep in s
Contains(s, sep) == Occurrences(s, sep) # {}

FirstOccurrence(s, sep) ==
    CHOOSE j \in Occurrences(s, sep) : \A i \in Occurrences(s, sep) : j <= i

\* s.split(sep)[0]
SplitHead(s, sep) ==
    IF Contains(s, sep) THEN SubSeq(s, 1, FirstOccurrence(s, sep) - 1) ELSE s

\* what follows the first occurrence of sep in s (sep occurs in s)
SplitRest(s, sep) == SubSeq(s, FirstOccurrence(s, sep) + Len(sep), Len(s))

\* s.split(sep)[1] (sep occurs in s)
SplitSecond(s, sep) == SplitHead(SplitRest(s, sep), sep)

\* s.strip()
RECURSIVE LStrip(_)
LStrip(s) == IF s # <<>> /\ Head(s) = WS THEN LStrip(Tail(s)) ELSE s

RECURSIVE RStrip(_)
RStrip(s) ==
    IF s # <<>> /\ s[Len(s)] = WS THEN RStrip(SubSeq(s, 1, Len(s) - 1)) ELSE s

Strip(s) == RStrip(LStrip(s))

JSONDecodeError == [t |-> "JSONDecodeError"]

\* json.loads(s): the text is one JSON value, whitespace around it allowed
JsonLoads(s) ==
    LET c == Strip(s)
    IN  IF Len(c) = 1 /\ IsDoc(c[1]) THEN c[1].v ELSE JSONDecodeError

\* an unwrapping that looks for a fence of any kind first
RemoveCodeBlocksAnyFenceFirst(txt) ==
    IF Contains(txt, <<FENCE>>)
    THEN Strip(SplitHead(SplitSecond(txt, <<FENCE>>), <<FENCE>>))
    ELSE txt

\* The markdown unwrapping of _extract_json and generate_slide_content
RemoveCodeBlocks(txt) ==
    IF Contains(txt, <<FENCE, LABEL>>)
    THEN Strip(SplitHead(SplitSecond(txt, <<FENCE, LABEL>>), <<FENCE>>))
    ELSE IF Contains(txt, <<FENCE>>)
    THEN Strip(SplitHead(SplitSecond(txt, <<FENCE>>), <<FENCE>>))
    ELSE txt

\* ConversationalPPTAgent._extract_json
ExtractJson(txt) ==
    IF txt = <<>> THEN Obj(EmptyDict)
    ELSE LET payload == RemoveCodeBlocks(txt)
             value == JsonLoads(payload)
         IN  IF value # JSONDecodeError THEN value
             ELSE IF \E i \in 1..Len(payload) : HasBrace(payload[i])
                  THEN Obj(EmptyDict)
                  ELSE Arr(<<>>)

\* The parse of ppt_generator.generate_slide_content: the error is raised
GenerateSlideContentParse(txt) == JsonLoads(RemoveCodeBlocks(txt))

----------------------------------------------------------------------------
(* TemplatePPTGenerator *)

\* TemplatePPTGenerator.THEMES, in the order of the dictionary
ThemeKeys ==
    <<"modern_blue", "elegant_purple", "corporate_green", "vibrant_orange",
      "dark_professional", "minimal_gray", "ocean_teal", "sunset_red",
      "royal_indigo", "forest_brown">>

THEMES == {ThemeKeys[i] : i \in 1..Len(ThemeKeys)}

\* TemplatePPTGenerator.LAYOUT_MAP
LAYOUT_MAP ==
    [title |-> 0, section |-> 1, content |-> 2, features |-> 3, data |-> 4,
     quote |-> 5, split |-> 6, timeline |-> 7, stat |-> 8, hero_image |-> 9,
     comparison |-> 10, team |-> 11, bullets |-> 12, cta |-> 13,
     dashboard |-> 14]

\* a mapping that hands an unlisted slide type on as the layout key
MapSlideTypeToLayoutPassing(slide_type) ==
    CASE slide_type = "statistics" -> "stat"
      [] slide_type = "summary" -> "bullets"
      [] slide_type = "conclusion" -> "bullets"
      [] OTHER -> slide_type

\* ConversationalPPTAgent._map_slide_type_to_layout
MapSlideTypeToLayout(slide_type) ==
    CASE slide_type = "title" -> "title"
      [] slide_type = "content" -> "content"
      [] slide_type = "bullets" -> "bullets"
      [] slide_type = "stat" -> "stat"
      [] slide_type = "statistics" -> "stat"
      [] slide_type = "data" -> "data"
      [] slide_type = "comparison" -> "comparison"
      [] slide_type = "timeline" -> "timeline"
      [] slide_type = "quote" -> "quote"
      [] slide_type = "team" -> "team"
      [] slide_type = "features" -> "features"
      [] slide_type = "cta" -> "cta"
      [] slide_type = "summary" -> "bullets"
      [] slide_type = "conclusion" -> "bullets"
      [] OTHER -> "content"

\* TemplatePPTGenerator.LAYOUT_MAP.get(layout_key, 2)
TemplateIdx(layout_key) ==
    IF layout_key \in DOMAIN LAYOUT_MAP THEN LAYOUT_MAP[layout_key] ELSE 2

\* The layouts a template file holds (CleanTemplateGenerator.generate_all)
NumLayouts == 15

\* The text frames of the template slide idx, top to bottom, each frame the
\* sequence of its paragraphs (CleanTemplateGenerator.layout_01..layout_15;
\* an auto shape has a text frame with one empty paragraph)
TemplateFrames(idx) ==
    CASE idx = 0 ->
    <<
       <<"">>, <<"">>, <<"Presentation Title">>,
       <<"Subtitle or tagline here">>
    >>
      [] idx = 1 ->
    <<
       <<"">>, <<"Section Title">>, <<"">>
    >>
      [] idx = 2 ->
    <<
       <<"">>, <<"Content Title">>,
       <<"Main content goes here", "", "Key point one", "Key point two", "Key point three">>,
       <<"">>
    >>
      [] idx = 3 ->
    <<
       <<"">>, <<"Key Features">>, <<"">>, <<"">>, <<"">>, <<"">>, <<"">>,
       <<"">>, <<"Feature 1">>, <<"Feature 2">>, <<"Feature 3">>,
       <<"Description of feature">>, <<"Description of feature">>,
       <<"Description of feature">>
    >>
      [] idx = 4 ->
    <<
       <<"">>, <<"Data Insights">>, <<"">>
    >>
      [] idx = 5 ->
    <<
       <<"">>, <<"">>, <<"\"Inspiring quote or key message\"">>,
       <<"- Author Name">>
    >>
      [] idx = 6 ->
    <<
       <<"">>, <<"">>, <<"Left Section", "", "Content here">>,
       <<"Right Section", "", "Content here">>
    >>
      [] idx = 7 ->
    <<
       <<"">>, <<"Timeline">>, <<"Step 1">>, <<"Step 2">>, <<"Step 3">>,
       <<"Step 4">>, <<"">>, <<"">>, <<"">>, <<"">>, <<"">>,
       <<"Description">>, <<"Description">>, <<"Description">>,
       <<"Description">>
    >>
      [] idx = 8 ->
    <<
       <<"">>, <<"95%">>, <<"Customer Satisfaction Rate">>,
       <<"Based on 2024 survey results">>
    >>
      [] idx = 9 ->
    <<
       <<"">>, <<"">>, <<"Hero Message">>
    >>
      [] idx = 10 ->
    <<
       <<"">>, <<"Comparison">>, <<"">>, <<"">>, <<"">>, <<"">>, <<"">>,
       <<"">>, <<"Option 1">>, <<"Option 2">>, <<"Option 3">>,
       <<"Feature A", "Feature B", "Feature C">>,
       <<"Feature A", "Feature B", "Feature C">>,
       <<"Feature A", "Feature B", "Feature C">>
    >>
      [] idx = 11 ->
    <<
       <<"">>, <<"Our Team">>, <<"">>, <<"">>, <<"">>, <<"">>,
       <<"Team Member 1">>, <<"Team Member 2">>, <<"Job Title">>,
       <<"Job Title">>, <<"">>, <<"">>, <<"">>, <<"">>, <<"Team Member 3">>,
       <<"Team Member 4">>, <<"Job Title">>, <<"Job Title">>
    >>
      [] idx = 12 ->
    <<
       <<"">>, <<"Key Points">>, <<"">>,
       <<"Key point 1 with detailed information">>, <<"">>,
       <<"Key point 2 with detailed information">>, <<"">>,
       <<"Key point 3 with detailed information">>, <<"">>,
       <<"Key point 4 with detailed information">>, <<"">>
    >>
      [] idx = 13 ->
    <<
       <<"">>, <<"">>, <<"Ready to Get Started?">>, <<"Get Started">>
    >>
      [] idx = 14 ->
    <<
       <<"">>, <<"Dashboard Overview">>, <<"">>, <<"">>
    >>
      [] OTHER -> <<>>

\* len(self.template_prs.slides): a template file, or the blank presentation
TemplateSlideCount(template) == IF template = "blank" THEN 0 ELSE NumLayouts

\* the paragraphs written for content['bullets'][:6]; text_frame.clear()
\* leaves one empty paragraph
MaxBullets == 6

BulletParagraphs(bullets) ==
    IF bullets = <<>> THEN <<"">>
    ELSE SubSeq(bullets, 1, IF Len(bullets) < MaxBullets THEN Len(bullets)
                            ELSE MaxBullets)

\* TemplatePPTGenerator._populate_slide_content, first shape: the title
PopulateFirst(frames, content) ==
    IF 0 < Len(frames) /\ "title" \in DOMAIN content
    THEN [idx |-> 1, frames |-> [frames EXCEPT ![1] = <<content["title"]>>]]
    ELSE [idx |-> 0, frames |-> frames]

\* a second shape whose bullets are added to the paragraphs that are there
PopulateSecondAdding(st, content) ==
    LET i == st.idx + 1
        put(paragraphs) ==
            [idx |-> i, frames |-> [st.frames EXCEPT ![i] = paragraphs]]
    IN  IF st.idx < Len(st.frames)
        THEN CASE "subtitle" \in DOMAIN content -> put(<<content["subtitle"]>>)
               [] "subtitle" \notin DOMAIN content /\ "bullets" \in DOMAIN content
                    -> put(st.frames[i] \o BulletParagraphs(content["bullets"]))
               [] {"subtitle", "bullets"} \cap DOMAIN content = {}
                  /\ "text" \in DOMAIN content -> put(<<content["text"]>>)
               [] {"subtitle", "bullets", "text"} \cap DOMAIN content = {}
                  /\ "stat" \in DOMAIN content -> put(<<content["stat"]>>)
               [] OTHER -> st
        ELSE st

\* a second shape that prefers the bullets to the subtitle
PopulateSecondBulletsFirst(st, content) ==
    LET i == st.idx + 1
        put(paragraphs) ==
            [idx |-> i, frames |-> [st.frames EXCEPT ![i] = paragraphs]]
    IN  IF st.idx < Len(st.frames)
        THEN CASE "bullets" \in DOMAIN content
                    -> put(BulletParagraphs(content["bullets"]))
               [] "bullets" \notin DOMAIN content /\ "subtitle" \in DOMAIN content
                    -> put(<<content["subtitle"]>>)
               [] {"subtitle", "bullets"} \cap DOMAIN content = {}
                  /\ "text" \in DOMAIN content -> put(<<content["text"]>>)
               [] {"subtitle", "bullets", "text"} \cap DOMAIN content = {}
                  /\ "stat" \in DOMAIN content -> put(<<content["stat"]>>)
               [] OTHER -> st
        ELSE st

\* second shape: subtitle, else bullets, else text, else stat
PopulateSecond(st, content) ==
    LET i == st.idx + 1
        put(paragraphs) ==
            [idx |-> i, frames |-> [st.frames EXCEPT ![i] = paragraphs]]
    IN  IF st.idx < Len(st.frames)
        THEN CASE "subtitle" \in DOMAIN content -> put(<<content["subtitle"]>>)
               [] "subtitle" \notin DOMAIN content /\ "bullets" \in DOMAIN content
                    -> put(BulletParagraphs(content["bullets"]))
               [] {"subtitle", "bullets"} \cap DOMAIN content = {}
                  /\ "text" \in DOMAIN content -> put(<<content["text"]>>)
               [] {"subtitle", "bullets", "text"} \cap DOMAIN content = {}
                  /\ "stat" \in DOMAIN content -> put(<<content["stat"]>>)
               [] OTHER -> st
        ELSE st

\* third shape: description of a stat, else context
PopulateThird(st, content) ==
    LET i == st.idx + 1
        put(paragraphs) ==
            [idx |-> i, frames |-> [st.frames EXCEPT ![i] = paragraphs]]
    IN  IF st.idx < Len(st.frames)
        THEN IF "bullets" \in DOMAIN content /\ "subtitle" \notin DOMAIN content
             THEN st
             ELSE IF "description" \in DOMAIN content /\ "stat" \in DOMAIN content
             THEN put(<<content["description"]>>)
             ELSE IF "context" \in DOMAIN content
             THEN put(<<content["context"]>>)
             ELSE st
        ELSE st

\* TemplatePPTGenerator._populate_slide_content: the frames afterwards
PopulateSlideContent(frames, content) ==
    PopulateThird(PopulateSecond(PopulateFirst(frames, content), content),
                  content).frames

\* TemplatePPTGenerator.__init__: the generator for a theme key, given the
\* template files on disk
FirstAvailable(available) ==
    ThemeKeys[CHOOSE i \in 1..Len(ThemeKeys) :
                 /\ ThemeKeys[i] \in available
                 /\ \A j \in 1..(i - 1) : ThemeKeys[j] \notin available]

NewGenerator(theme_key, available) ==
    LET entry == IF theme_key \in THEMES THEN theme_key ELSE "modern_blue"
    IN  IF entry \in available
        THEN [t |-> "generator", theme_key |-> theme_key, template |-> entry,
              prs |-> <<>>]
        ELSE IF available \cap THEMES # {}
        THEN [t |-> "generator", theme_key |-> FirstAvailable(available),
              template |-> FirstAvailable(available), prs |-> <<>>]
        ELSE [t |-> "generator", theme_key |-> theme_key, template |-> "blank",
              prs |-> <<>>]

\* TemplatePPTGenerator.copy_slide: self.prs.slides afterwards. A slide is
\* the record position it was made from, the template it was copied from,
\* the template slide and its text frames
CopySlide(gen, template_idx, content, pos) ==
    IF template_idx >= TemplateSlideCount(gen.template) THEN gen.prs
    ELSE Append(gen.prs,
                [of |-> pos, theme |-> gen.template, layout |-> template_idx,
                 frames |-> PopulateSlideContent(TemplateFrames(template_idx),
                                                 content)])

\* TemplatePPTGenerator.save: the file at output_path afterwards
Save(prs) == [exists |-> TRUE, slides |-> prs]

----------------------------------------------------------------------------
(* What the generation service may return *)

\* the topic of outline entry k
TopicName(k) ==
    CASE k = 1 -> "Topic 1" [] k = 2 -> "Topic 2" [] k = 3 -> "Topic 3"
      [] OTHER -> "Topic"

\* the slide type the service plans for entry k when it follows the prompt
PlannedType(k) ==
    CASE k = 1 -> "title" [] k = 2 -> "content" [] k = 3 -> "stat"
      [] OTHER -> "summary"

OutlineEntry(number, type, k) ==
    [number |-> number, type |-> type, topic |-> TopicName(k),
     description |-> "description"]

OutlineOf(slides) ==
    Obj(("presentation_title" :> "Presentation") @@ ("slides" :> slides))

\* an outline of m entries numbered 1..m, the first a title slide
PlannedOutline(m) ==
    OutlineOf([k \in 1..m |-> OutlineEntry(k, PlannedType(k), k)])

\* outlines that do not follow the prompt: a repeated number, no title slide
RepeatedNumberOutline ==
    OutlineOf(<<OutlineEntry(1, "title", 1), OutlineEntry(1, "content", 2)>>)

NoTitleOutline == OutlineOf(<<OutlineEntry(1, "content", 1)>>)

\* the ways a reply wraps a document, and replies that hold no JSON
Labelled(doc) == <<JUNK, FENCE, LABEL, WS, DocTok(doc), WS, FENCE>>
Fenced(doc) == <<FENCE, WS, DocTok(doc), WS, FENCE, JUNK>>
Bare(doc) == <<WS, DocTok(doc)>>

NoJson == {<<>>, <<JUNK>>, <<BRACE, JUNK>>}

OutlineTexts ==
    {Labelled(PlannedOutline(m)) : m \in 0..MaxSlides}
        \cup {Fenced(RepeatedNumberOutline), Bare(NoTitleOutline)} \cup NoJson

\* the content the service writes for an outline entry, by the shape the
\* prompt of _generate_slide_content asks for
PlannedContent(slide_info) ==
    LET ty == slide_info["type"]
    IN  IF ty = "title"
        THEN ("title" :> slide_info["topic"]) @@ ("subtitle" :> "Subtitle")
        ELSE IF ty \in {"content", "bullets"}
        THEN ("title" :> slide_info["topic"])
                 @@ ("bullets" :> <<"Point 1", "Point 2">>)
        ELSE IF ty = "stat"
        THEN ("stat" :> "95%") @@ ("description" :> "What it means")
                 @@ ("context" :> "Additional context")
        ELSE ("title" :> slide_info["topic"]) @@ ("text" :> "Main content")

ContentTexts(slide_info) ==
    {Labelled(Obj(PlannedContent(slide_info))), <<JUNK>>, <<BRACE, JUNK>>}

\* within a session of single calls: the planned content, or no JSON
SessionContentTexts(slide_info) ==
    {Labelled(Obj(PlannedContent(slide_info))), <<JUNK>>}

\* the patches the service returns to modify_slide
PatchDicts == {("title" :> "New Title"), ("slide_number" :> 1)}

PatchTexts ==
    {Fenced(Obj(d)) : d \in PatchDicts} \cup {<<JUNK>>, <<JUNK, BRACE>>}

\* the action plans the service returns to apply_user_feedback
PlanDicts ==
    {("action" :> "modify_slide") @@ ("target_slides" :> <<n>>)
         @@ ("new_content" :> ("title" :> "New Title")) :
             n \in {0, MaxSlides, MaxSlides + 1}}
    \cup {("action" :> "modify_slide") @@ ("target_slides" :> <<1, 2>>)
              @@ ("new_content" :> ("slide_number" :> 1)),
          ("action" :> "modify_slide") @@ ("target_slides" :> <<1>>),
          ("action" :> "change_theme") @@ ("new_theme" :> "elegant_purple"),
          ("action" :> "change_theme") @@ ("new_theme" :> "pastel"),
          ("action" :> "add_slide")}

PlanTexts == {Bare(Obj(d)) : d \in PlanDicts} \cup {<<JUNK>>}

\* the replies to the theme question of select_theme: words, quotes, spaces
QUOTE == [k |-> "quote"]
Word(w) == [k |-> "word", v |-> w]

ThemeAnswers ==
    {<<WS, QUOTE, Word("ocean_teal"), QUOTE, WS>>, <<Word("pastel")>>}

\* the theme preferences a caller passes to select_theme ("" is None)
ThemePreferences == {"", "ocean_teal", "pastel"}

\* the slide indices a caller passes
SlideIndices == (0 - 1)..MaxSlides

----------------------------------------------------------------------------
(* ConversationalPPTAgent *)

\* an update that replaces the whole record by the patch
DictUpdateReplacing(d, changes) == changes

\* dict.update
DictUpdate(d, changes) ==
    [key \in DOMAIN d \cup DOMAIN changes |->
        IF key \in DOMAIN changes THEN changes[key] ELSE d[key]]

\* d.update(x) for a parsed reply x: a dict is merged, the empty list adds
\* nothing
UpdateWith(d, x) == IF IsObj(x) THEN DictUpdate(d, x.v) ELSE d

\* response.choices[0].message.content.strip().strip('"') of select_theme
RECURSIVE LStripQuotes(_)
LStripQuotes(s) ==
    IF s # <<>> /\ Head(s) = QUOTE THEN LStripQuotes(Tail(s)) ELSE s

RECURSIVE RStripQuotes(_)
RStripQuotes(s) ==
    IF s # <<>> /\ s[Len(s)] = QUOTE
    THEN RStripQuotes(SubSeq(s, 1, Len(s) - 1)) ELSE s

AnswerKey(answer) ==
    LET c == RStripQuotes(LStripQuotes(Strip(answer)))
    IN  IF Len(c) = 1 /\ c[1].k = "word" THEN c[1].v ELSE "?"

\* select_theme: the theme key chosen, or "raise" when the outline is a
\* non-empty list (it has no get)
SelectThemeKey(user_preference, ol, answer) ==
    IF user_preference # "" /\ user_preference \in THEMES THEN user_preference
    ELSE IF ~Truthy(ol) THEN "modern_blue"
    ELSE IF ~IsObj(ol) THEN "raise"
    ELSE IF AnswerKey(answer) \in THEMES THEN AnswerKey(answer)
    ELSE "modern_blue"

\* _generate_slide_content: the record made of the reply for an outline
\* entry, or "raise" (a list takes no key)
SlideContentOf(slide_info, reply) ==
    IF IsObj(reply)
    THEN Obj(DictUpdate(reply.v, ("slide_number" :> slide_info["number"])
                                    @@ ("slide_type" :> slide_info["type"])))
    ELSE [t |-> "raise"]

\* a loop that sends every content request before it makes any record
GenerateContentLoopAhead(slides, replies, i, acc, log) ==
    LET made == [k \in 1..Len(slides) |->
                    SlideContentOf(slides[k], ExtractJson(replies[k]))]
        raised == \E k \in 1..Len(slides) : made[k].t = "raise"
    IN  [content |-> IF raised THEN <<>>
                     ELSE [k \in 1..Len(slides) |-> made[k].v],
         log |-> [k \in 1..Len(slides) |-> [pos |-> k, have |-> 0]],
         raised |-> raised]

\* the loop of generate_content over the outline's slides from entry i on:
\* the records so far (acc), the log of the requests made, each with the
\* number of records that existed when it was made, and whether it raised
RECURSIVE GenerateContentLoop(_, _, _, _, _)
GenerateContentLoop(slides, replies, i, acc, log) ==
    IF i > Len(slides) THEN [content |-> acc, log |-> log, raised |-> FALSE]
    ELSE LET made == Append(log, [pos |-> i, have |-> Len(acc)])
             c == SlideContentOf(slides[i], ExtractJson(replies[i]))
         IN  IF c.t = "raise"
             THEN [content |-> acc, log |-> made, raised |-> TRUE]
             ELSE GenerateContentLoop(slides, replies, i + 1,
                                      Append(acc, c.v), made)

\* self.outline.get('slides', []) of an outline that is a dict (nothing to
\* loop over otherwise: the callers raise first)
OutlineSlides(ol) == IF IsObj(ol) THEN Get(ol.v, "slides", <<>>) ELSE <<>>

\* build_single_slide / build_presentation: the template slide of a record
TemplateIdxOf(content) ==
    TemplateIdx(MapSlideTypeToLayout(Get(content, "slide_type", "content")))

\* a re-rendering that adds the populated slide at the end of the file
RepopulatedSlidesAppending(slides, idx, content) ==
    Append(slides, [slides[PyIndex(idx, Len(slides))] EXCEPT
                       !.frames = PopulateSlideContent(@, content)])

\* modify_slide: the slides of the file after slide idx is populated again
RepopulatedSlides(slides, idx, content) ==
    LET p == PyIndex(idx, Len(slides))
    IN  [slides EXCEPT ![p] =
            [@ EXCEPT !.frames = PopulateSlideContent(@, content)]]

\* apply_user_feedback, action modify_slide: the records after the targets
\* from position i on are updated
RECURSIVE FeedbackLoop(_, _, _, _)
FeedbackLoop(content, plan, targets, i) ==
    IF i > Len(targets) THEN content
    ELSE LET slide_num == targets[i]
             next == IF 0 < slide_num /\ slide_num <= Len(content)
                        /\ "new_content" \in DOMAIN plan
                     THEN [content EXCEPT ![slide_num] =
                              DictUpdate(@, plan["new_content"])]
                     ELSE content
         IN  FeedbackLoop(next, plan, targets, i + 1)

----------------------------------------------------------------------------
(* The state of a new agent and of its surroundings *)

NoFile == [exists |-> FALSE, slides |-> <<>>]
NoCall == [op |-> "none", arg |-> 0, result |-> "none"]
NotExtracted == [done |-> FALSE, payload |-> <<>>, value |-> None,
                 parsed |-> None]

\* the template files that may be on disk: all or none
TemplateSets == {THEMES, {}}

\* ConversationalPPTAgent.__init__
NewAgent ==
    /\ outline = None
    /\ theme = "None"
    /\ slides_content = <<>>
    /\ ppt_generator = None

\* the variables of the functions that are not in use
NoExtraction == text = <<>> /\ extracted = NotExtracted

NoRender == record = None /\ rendered = None /\ fills = 0

NoBold == bullet = <<>> /\ runs = None

NoDeck == request = None /\ PEXELS_AVAILABLE = FALSE /\ deck = None

NoEmit == converted = None /\ page = None /\ browser = None

NoApp == job = None /\ run_result = None

NoKeywords == slide_title = None /\ search_query = None

\* a session that has not started
IdleAgent ==
    /\ templates = THEMES
    /\ NewAgent
    /\ file = NoFile
    /\ last = NoCall
    /\ reqlog = <<>>
    /\ built = {}
    /\ theme_changes = 0
    /\ repeats = 0

Init ==
    /\ templates \in TemplateSets
    /\ NewAgent
    /\ file = NoFile
    /\ last = NoCall
    /\ reqlog = <<>>
    /\ built = {}
    /\ theme_changes = 0
    /\ repeats = 0
    /\ NoExtraction
    /\ NoRender
    /\ NoBold
    /\ NoDeck
    /\ NoEmit
    /\ NoApp
    /\ NoKeywords

Call(op, arg, result) == [op |-> op, arg |-> arg, result |-> result]

----------------------------------------------------------------------------
(* The operations of the agent *)

\* generate_outline, select_theme and generate_content have no precondition:
\* a call made while its product exists replaces the product.  Such calls,
\* and every select_theme that apply_user_feedback makes, are counted, and
\* the count is capped to keep the sessions finite
Repeated(again) ==
    IF again
    THEN /\ repeats < MaxRepeats
         /\ repeats' = repeats + 1
    ELSE UNCHANGED repeats

\* ConversationalPPTAgent.generate_outline(topic, num_slides)
GenerateOutline(num_slides, reply) ==
    LET parsed == ExtractJson(reply)
    IN  /\ Repeated(IsObj(outline))
        /\ outline' = parsed
        /\ last' = Call("generate_outline", num_slides,
                        IF IsObj(parsed) THEN "outline" ELSE "raise")
        /\ UNCHANGED <<templates, theme, slides_content, ppt_generator, file,
                       reqlog, built, theme_changes, pureVars>>

\* ConversationalPPTAgent.select_theme(user_preference)
SelectTheme(user_preference, answer) ==
    LET key == SelectThemeKey(user_preference, outline, answer)
    IN  /\ Repeated(ppt_generator # None)
        /\ IF key = "raise"
           THEN UNCHANGED <<theme, ppt_generator>>
           ELSE /\ theme' = key
                /\ ppt_generator' = NewGenerator(key, templates)
        /\ last' = Call("select_theme", 0, key)
        /\ UNCHANGED <<templates, outline, slides_content, file, reqlog,
                       built, theme_changes, pureVars>>

\* the replies to the content requests of generate_content, one per entry
ReplySeqs(slides, session) ==
    LET Replies(slide_info) == IF session THEN SessionContentTexts(slide_info)
                               ELSE ContentTexts(slide_info)
    IN  {r \in [1..Len(slides) ->
                   UNION {Replies(slides[i]) : i \in 1..Len(slides)}] :
            \A i \in 1..Len(slides) : r[i] \in Replies(slides[i])}

\* ConversationalPPTAgent.generate_content()
GenerateContent(replies) ==
    /\ Repeated(slides_content # <<>>)
    /\ IF ~IsObj(outline)
       THEN /\ last' = Call("generate_content", 0, "raise")
            /\ UNCHANGED <<templates, outline, theme, slides_content,
                           ppt_generator, file, reqlog, built,
                           theme_changes, pureVars>>
       ELSE LET r == GenerateContentLoop(OutlineSlides(outline), replies, 1,
                                         <<>>, <<>>)
            IN  /\ reqlog' = r.log
                /\ IF r.raised
                   THEN /\ last' = Call("generate_content", 0, "raise")
                        /\ UNCHANGED <<slides_content, built>>
                   ELSE /\ slides_content' = r.content
                        /\ built' = {}
                        /\ last' = Call("generate_content", 0, "content")
                /\ UNCHANGED <<templates, outline, theme, ppt_generator, file,
                               theme_changes, pureVars>>

\* ConversationalPPTAgent.build_single_slide(slide_index, output_path)
BuildSingleSlide(slide_index) ==
    LET pos == PyIndex(slide_index, Len(slides_content))
        result ==
            IF ppt_generator = None THEN "None"
            ELSE IF slide_index >= Len(slides_content) THEN "None"
            ELSE IF pos = 0 THEN "raise"
            ELSE "path"
    IN  /\ ppt_generator # None => Len(ppt_generator.prs) < MaxDoc
        /\ last' = Call("build_single_slide", slide_index, result)
        /\ IF result = "path"
           THEN LET prs == CopySlide(ppt_generator,
                                     TemplateIdxOf(slides_content[pos]),
                                     slides_content[pos], pos)
                IN  /\ ppt_generator' = [ppt_generator EXCEPT !.prs = prs]
                    /\ file' = Save(prs)
                    /\ built' = built \cup {pos}
           ELSE UNCHANGED <<ppt_generator, file, built>>
        /\ UNCHANGED <<templates, outline, theme, slides_content, reqlog,
                       theme_changes, repeats, pureVars>>

\* modify_slide: slide_info = self.outline['slides'][slide_index] is read
\* without raising
OutlineEntryReadable(slide_index) ==
    /\ IsObj(outline)
    /\ "slides" \in DOMAIN outline.v
    /\ PyIndex(slide_index, Len(outline.v["slides"])) # 0

StoreRecordEverywhere(records, pos, new_content) ==
    [p \in 1..Len(records) |-> new_content]

\* self.slides_content[slide_index] = old_content
StoreRecord(records, pos, new_content) ==
    [records EXCEPT ![pos] = new_content]

\* ConversationalPPTAgent.modify_slide(slide_index, feedback, ppt_path)
ModifySlide(slide_index, reply) ==
    LET pos == PyIndex(slide_index, Len(slides_content))
        changes == ExtractJson(reply)
        new_content == UpdateWith(slides_content[pos], changes)
        fpos == PyIndex(slide_index, Len(file.slides))
    IN  IF slide_index >= Len(slides_content)
        THEN /\ last' = Call("modify_slide", slide_index, "None")
             /\ UNCHANGED <<templates, outline, theme, slides_content,
                            ppt_generator, file, reqlog, built,
                            theme_changes, repeats, pureVars>>
        ELSE IF pos = 0 \/ ~OutlineEntryReadable(slide_index)
        THEN /\ last' = Call("modify_slide", slide_index, "raise")
             /\ UNCHANGED <<templates, outline, theme, slides_content,
                            ppt_generator, file, reqlog, built,
                            theme_changes, repeats, pureVars>>
        ELSE /\ slides_content' = StoreRecord(slides_content, pos, new_content)
             /\ IF \/ ~file.exists
                   \/ (slide_index < Len(file.slides) /\ fpos = 0)
                   \/ (slide_index < Len(file.slides) /\ ppt_generator = None)
                THEN /\ last' = Call("modify_slide", slide_index, "raise")
                     /\ UNCHANGED file
                ELSE IF slide_index < Len(file.slides)
                THEN LET slides == RepopulatedSlides(file.slides, slide_index,
                                                     new_content)
                     IN  /\ file' = Save(slides)
                         /\ last' = Call("modify_slide", slide_index, "content")
                ELSE /\ last' = Call("modify_slide", slide_index, "content")
                     /\ UNCHANGED file
             /\ UNCHANGED <<templates, outline, theme, ppt_generator, reqlog,
                            built, theme_changes, repeats, pureVars>>

\* ConversationalPPTAgent.apply_user_feedback(feedback)
ApplyUserFeedback(reply, answer) ==
    LET action_plan == ExtractJson(reply)
        plan == action_plan.v
        action == Get(plan, "action", "None")
        key == SelectThemeKey(Get(plan, "new_theme", "modern_blue"), outline,
                              answer)
    IN  IF ~IsObj(action_plan)
        THEN /\ last' = Call("apply_user_feedback", 0, "raise")
             /\ UNCHANGED <<templates, outline, theme, slides_content,
                            ppt_generator, file, reqlog, built,
                            theme_changes, repeats, pureVars>>
        ELSE IF action = "modify_slide"
        THEN /\ slides_content' =
                    FeedbackLoop(slides_content, plan,
                                 Get(plan, "target_slides", <<>>), 1)
             /\ last' = Call("apply_user_feedback", 0, "returned")
             /\ UNCHANGED <<templates, outline, theme, ppt_generator, file,
                            reqlog, built, theme_changes, repeats, pureVars>>
        ELSE IF action = "change_theme" /\ key = "raise"
        THEN /\ Repeated(TRUE)
             /\ last' = Call("apply_user_feedback", 0, "raise")
             /\ UNCHANGED <<templates, outline, theme, slides_content,
                            ppt_generator, file, reqlog, built,
                            theme_changes, pureVars>>
        ELSE IF action = "change_theme"
        THEN /\ Repeated(TRUE)
             /\ theme_changes < MaxThemeChanges
             /\ theme_changes' = theme_changes + 1
             /\ theme' = key
             /\ ppt_generator' = NewGenerator(key, templates)
             /\ last' = Call("apply_user_feedback", 0, "returned")
             /\ UNCHANGED <<templates, outline, slides_content, file, reqlog,
                            built, pureVars>>
        ELSE /\ last' = Call("apply_user_feedback", 0, "returned")
             /\ UNCHANGED <<templates, outline, theme, slides_content,
                            ppt_generator, file, reqlog, built,
                            theme_changes, repeats, pureVars>>

\* the loop of build_presentation: self.prs.slides after the records from
\* position i on are copied
RECURSIVE CopyAll(_, _, _)
CopyAll(gen, content, i) ==
    IF i > Len(content) THEN gen.prs
    ELSE CopyAll([gen EXCEPT !.prs = CopySlide(gen, TemplateIdxOf(content[i]),
                                               content[i], i)],
                 content, i + 1)

\* ConversationalPPTAgent.build_presentation(output_path)
BuildPresentation ==
    IF ppt_generator = None
    THEN /\ last' = Call("build_presentation", 0, "None")
         /\ UNCHANGED <<templates, outline, theme, slides_content,
                        ppt_generator, file, reqlog, built,
                        theme_changes, repeats, pureVars>>
    ELSE /\ Len(ppt_generator.prs) + Len(slides_content) <= MaxDoc
         /\ LET prs == CopyAll(ppt_generator, slides_content, 1)
            IN  /\ ppt_generator' = [ppt_generator EXCEPT !.prs = prs]
                /\ file' = Save(prs)
         /\ built' = built \cup (1..Len(slides_content))
         /\ last' = Call("build_presentation", 0, "path")
         /\ UNCHANGED <<templates, outline, theme, slides_content, reqlog,
                        theme_changes, repeats, pureVars>>

\* the replies to self_review
ReviewTexts == {Bare(Obj(("overall_quality" :> "good"))), <<JUNK>>}

\* generate_presentation_interactive(topic, num_slides): a new agent runs
\* generate_outline, select_theme, generate_content, self_review and
\* build_presentation; an exception of a step ends the run there
GeneratePresentationInteractive(num_slides, reply, answer, replies, review) ==
    LET ol == ExtractJson(reply)
        key == SelectThemeKey("", ol, answer)
        gen == NewGenerator(key, templates)
        r == GenerateContentLoop(OutlineSlides(ol), replies, 1, <<>>, <<>>)
        prs == CopyAll(gen, r.content, 1)
        call(result) ==
            Call("generate_presentation_interactive", num_slides, result)
    IN  /\ NewAgent
        /\ ~file.exists
        /\ outline' = ol
        /\ IF ~IsObj(ol)
           THEN /\ last' = call("raise")
                /\ UNCHANGED <<theme, ppt_generator, slides_content, reqlog,
                               file, built>>
           ELSE /\ theme' = key
                /\ ppt_generator' =
                       IF r.raised \/ ~IsObj(ExtractJson(review)) THEN gen
                       ELSE [gen EXCEPT !.prs = prs]
                /\ reqlog' = r.log
                /\ slides_content' = IF r.raised THEN <<>> ELSE r.content
                /\ IF r.raised \/ ~IsObj(ExtractJson(review))
                   THEN /\ last' = call("raise")
                        /\ UNCHANGED <<file, built>>
                   ELSE /\ file' = Save(prs)
                        /\ built' = 1..Len(r.content)
                        /\ last' = call("path")
        /\ UNCHANGED <<templates, theme_changes, repeats, pureVars>>

\* select_theme asks the model for a theme
AsksTheme(user_preference, ol) ==
    /\ ~(user_preference # "" /\ user_preference \in THEMES)
    /\ Truthy(ol)
    /\ IsObj(ol)

\* modify_slide asks the model for a patch
AsksPatch(slide_index) ==
    /\ slide_index < Len(slides_content)
    /\ PyIndex(slide_index, Len(slides_content)) # 0
    /\ OutlineEntryReadable(slide_index)

\* apply_user_feedback calls select_theme, which asks the model for a theme
FeedbackAsksTheme(reply) ==
    LET action_plan == ExtractJson(reply)
    IN  /\ IsObj(action_plan)
        /\ Get(action_plan.v, "action", "None") = "change_theme"
        /\ AsksTheme(Get(action_plan.v, "new_theme", "modern_blue"), outline)

\* the reply of a request that is not made
NoReply == <<>>

\* The methods of the agent are called in any order, any number of times,
\* with any index; a reply is drawn for each request a call makes.
\* generate_presentation_interactive keeps its agent to itself: when it
\* has returned there is nobody to call the agent again
Running == last.op # "generate_presentation_interactive"

Next ==
    \/ /\ Running
       /\ \E n \in 1..MaxSlides, reply \in OutlineTexts :
              GenerateOutline(n, reply)
    \/ /\ Running
       /\ \E pref \in ThemePreferences :
              \E answer \in IF AsksTheme(pref, outline) THEN ThemeAnswers
                             ELSE {NoReply} :
                  SelectTheme(pref, answer)
    \/ /\ Running
       /\ \E replies \in ReplySeqs(OutlineSlides(outline), TRUE) :
              GenerateContent(replies)
    \/ Running /\ \E i \in SlideIndices : BuildSingleSlide(i)
    \/ /\ Running
       /\ \E i \in SlideIndices :
              \E reply \in IF AsksPatch(i) THEN PatchTexts ELSE {NoReply} :
                  ModifySlide(i, reply)
    \/ /\ Running
       /\ \E reply \in PlanTexts :
              \E answer \in IF FeedbackAsksTheme(reply) THEN ThemeAnswers
                             ELSE {NoReply} :
                  ApplyUserFeedback(reply, answer)
    \/ Running /\ BuildPresentation
    \/ \E n \in 1..MaxSlides, reply \in OutlineTexts, answer \in ThemeAnswers,
          review \in ReviewTexts :
           \E replies \in ReplySeqs(OutlineSlides(ExtractJson(reply)),
                                    FALSE) :
               GeneratePresentationInteractive(n, reply, answer, replies,
                                               review)

Spec == Init /\ [][Next]_vars

----------------------------------------------------------------------------
(* JSON extraction on its own: every text of at most MaxText tokens *)

Alphabet ==
    {FENCE, LABEL, WS, JUNK, BRACE, DocTok(Obj(EmptyDict)), DocTok(Arr(<<>>))}

Texts == UNION {[1..n -> Alphabet] : n \in 0..MaxText}

\* _extract_json(text) and the parse of generate_slide_content on one text
Extract ==
    /\ ~extracted.done
    /\ extracted' = [done |-> TRUE, payload |-> RemoveCodeBlocks(text),
                     value |-> ExtractJson(text),
                     parsed |-> GenerateSlideContentParse(text)]
    /\ UNCHANGED <<text, agentVars, renderVars, boldVars, deckVars, emitVars,
                   appVars, keywordVars>>

InitExtract ==
    /\ IdleAgent
    /\ text \in Texts
    /\ extracted = NotExtracted
    /\ NoRender
    /\ NoBold
    /\ NoDeck
    /\ NoEmit
    /\ NoApp
    /\ NoKeywords

NextExtract == Extract

SpecExtract == InitExtract /\ [][NextExtract]_vars

----------------------------------------------------------------------------
(* Properties of the session *)

\* the slide is what populating it with the record gives
Shows(slide, content) ==
    PopulateSlideContent(slide.frames, content) = slide.frames

IsPrefix(s, t) == Len(s) <= Len(t) /\ SubSeq(t, 1, Len(s)) = s

\* a build call that returned the path of the saved file
BuildReturnedPath(call) ==
    /\ call.op \in {"build_single_slide", "build_presentation"}
    /\ call.result = "path"

\* the step is a call of modify_slide that got this reply
ModifySlideStep(reply) ==
    last'.op = "modify_slide" /\ ModifySlide(last'.arg, reply)

\* the step is a call of apply_user_feedback that got this plan
FeedbackStep(reply) ==
    /\ last'.op = "apply_user_feedback"
    /\ \E answer \in IF FeedbackAsksTheme(reply) THEN ThemeAnswers
                      ELSE {NoReply} :
           ApplyUserFeedback(reply, answer)

\* the plans of PlanTexts that update records
ModifyPlanTexts ==
    {reply \in PlanTexts :
        /\ IsObj(ExtractJson(reply))
        /\ Get(ExtractJson(reply).v, "action", "None") = "modify_slide"
        /\ "new_content" \in DOMAIN ExtractJson(reply).v}

\* C1: after build_single_slide, modify_slide or apply_user_feedback the
\* saved document holds exactly one slide per record built so far, in
\* order: as many slides as built records, and the slide at position p made
\* from the record at position p, which has been built
C1_DocumentHoldsBuiltRecords ==
    (/\ file.exists
     /\ last.op \in {"build_single_slide", "modify_slide",
                     "apply_user_feedback"}) =>
        /\ Len(file.slides) = Cardinality(built)
        /\ \A p \in 1..Len(file.slides) :
               file.slides[p].of = p /\ p \in built

\* C2: when modify_slide has rendered a slide of the file again from the
\* patched record, the save of the next build_single_slide still shows that
\* slide as the patched record gives it
C2_PatchStaysInFile ==
    [][(/\ last.op = "modify_slide" /\ last.result = "content"
        /\ PyIndex(last.arg, Len(file.slides)) # 0
        /\ last'.op = "build_single_slide" /\ last'.result = "path")
       => LET p == PyIndex(last.arg, Len(file.slides))
          IN  /\ p <= Len(file'.slides)
              /\ Shows(file'.slides[p],
                       slides_content'[PyIndex(last.arg,
                                               Len(slides_content))])]_vars

\* the record r after the patch is merged: the patch's value for each field
\* the patch names, the record's own value for every other field
MergedFieldwise(before, after, patch) ==
    /\ DOMAIN after = DOMAIN before \cup DOMAIN patch
    /\ \A key \in DOMAIN after :
           after[key] = IF key \in DOMAIN patch THEN patch[key]
                        ELSE before[key]

\* the records other than those at the positions given stay as they are
OthersUnchanged(positions) ==
    /\ Len(slides_content') = Len(slides_content)
    /\ \A p \in 1..Len(slides_content) :
           p \notin positions => slides_content'[p] = slides_content[p]

\* C3: the merge of a patch is local to its fields and the last write wins:
\* after modify_slide merges a patch into a record, every field the patch
\* names has the patch's value and every other field of the record keeps
\* its value; the same for the records apply_user_feedback updates
C3_PatchMergeFieldLocal ==
    [][/\ \A reply \in PatchTexts :
              (ModifySlideStep(reply) /\ last'.result # "None"
                   /\ PyIndex(last'.arg, Len(slides_content)) # 0
                   /\ OutlineEntryReadable(last'.arg)
                   /\ IsObj(ExtractJson(reply)))
              => LET pos == PyIndex(last'.arg, Len(slides_content))
                 IN  /\ MergedFieldwise(slides_content[pos],
                                        slides_content'[pos],
                                        ExtractJson(reply).v)
                     /\ OthersUnchanged({pos})
       /\ \A reply \in ModifyPlanTexts :
              FeedbackStep(reply)
              => LET plan == ExtractJson(reply).v
                     targets == {plan["target_slides"][k] :
                                    k \in 1..Len(plan["target_slides"])}
                                    \cap (1..Len(slides_content))
                 IN  /\ \A pos \in targets :
                            MergedFieldwise(slides_content[pos],
                                            slides_content'[pos],
                                            plan["new_content"])
                     /\ OthersUnchanged(targets)]_vars

\* modify_slide has merged a title patch into a record that has bullets
C3_Witness ==
    /\ last.op = "modify_slide" /\ last.result = "content"
    /\ PyIndex(last.arg, Len(slides_content)) # 0
    /\ LET r == slides_content[PyIndex(last.arg, Len(slides_content))]
       IN  /\ "bullets" \in DOMAIN r
           /\ r["bullets"] = <<"Point 1", "Point 2">>
           /\ r["title"] = "New Title"

\* C4: modify_slide does not advance the session: the number of records,
\* the number of slides of the output file and of the document in memory,
\* and the set of built records are the same after it as before it
C4_ModifyDoesNotAdvance ==
    [][\A reply \in PatchTexts :
           ModifySlideStep(reply)
           => /\ Len(slides_content') = Len(slides_content)
              /\ file'.exists = file.exists
              /\ Len(file'.slides) = Len(file.slides)
              /\ ppt_generator' = ppt_generator
              /\ built' = built]_vars

\* modify_slide has rendered slide 1 again while slide 2 is still to build
C4_Witness ==
    /\ last.op = "modify_slide" /\ last.result = "content" /\ last.arg = 0
    /\ Len(slides_content) = 2
    /\ Len(file.slides) = 1
    /\ built = {1}
    /\ file.slides[1].frames[1] = <<"New Title">>

\* every content request was made when the records of all positions before
\* its own existed
RequestsInOrder ==
    \A k \in 1..Len(reqlog) : reqlog[k].have >= reqlog[k].pos - 1

\* a patch of modify_slide or apply_user_feedback changes generated records
\* only: no record is added, and an index that denotes no generated record
\* changes neither the records nor the file
PatchesGeneratedOnly ==
    /\ \A reply \in PatchTexts :
           ModifySlideStep(reply)
           => /\ Len(slides_content') = Len(slides_content)
              /\ PyIndex(last'.arg, Len(slides_content)) = 0
                     => slides_content' = slides_content /\ file' = file
              /\ PyIndex(last'.arg, Len(file.slides)) = 0 => file' = file
    /\ \A reply \in PlanTexts :
           FeedbackStep(reply)
           => /\ Len(slides_content') = Len(slides_content)
              /\ slides_content = <<>> => slides_content' = <<>>

\* C5: one slide is in flight at a time: the content of position i+1 is
\* never requested before the record of position i exists, and no patch is
\* applied to an index without generated content, whatever index is given
C5_OneSlideInFlight == []RequestsInOrder /\ [][PatchesGeneratedOnly]_vars

\* two contents were requested in turn, and a patch for an index past the
\* records was turned down
C5_Witness ==
    /\ Len(reqlog) = 2 /\ reqlog[2].have = 1
    /\ Len(slides_content) = 2
    /\ last.op = "modify_slide" /\ last.arg = 2 /\ last.result = "None"

\* C6: a run for slide_count n that returns the path of its file has saved
\* exactly n slides, in the order of the outline, the first a title slide
C6_EndToEnd ==
    (last.op = "generate_presentation_interactive" /\ last.result = "path")
    => /\ Len(file.slides) = last.arg
       /\ \A p \in 1..Len(file.slides) : file.slides[p].of = p
       /\ file.slides[1].layout = LAYOUT_MAP["title"]

\* C7: after a theme change through feedback the next save keeps every
\* slide the file held, unchanged, and adds the new slides after them
C7_ThemeChangeKeepsSlides ==
    [][(theme_changes > 0 /\ file.exists /\ BuildReturnedPath(last'))
       => IsPrefix(file.slides, file'.slides)]_vars

\* C8: every record carries the number of its outline entry, and no two
\* records carry the same number
C8_SlideNumberImmutable ==
    /\ \A p \in 1..Len(slides_content) :
           slides_content[p]["slide_number"]
               = OutlineSlides(outline)[p]["number"]
    /\ \A p, q \in 1..Len(slides_content) :
           slides_content[p]["slide_number"]
               = slides_content[q]["slide_number"] => p = q

\* C9: the outline generate_outline returns for slide_count n has exactly
\* n entries, numbered 1..n in order
C9_OutlineHasSlideCount ==
    (last.op = "generate_outline" /\ last.result = "outline")
    => /\ Len(OutlineSlides(outline)) = last.arg
       /\ \A k \in 1..Len(OutlineSlides(outline)) :
              OutlineSlides(outline)[k]["number"] = k

----------------------------------------------------------------------------
(* Properties of the extraction *)

Least(S) == CHOOSE j \in S : \A i \in S : j <= i

\* the text from position start up to the next fence marker, or up to the
\* end of the text when no marker follows
UpToNextFence(txt, start) ==
    LET later == {j \in Occurrences(txt, <<FENCE>>) : j >= start}
    IN  SubSeq(txt, start, IF later = {} THEN Len(txt) ELSE Least(later) - 1)

\* the payload by the three cases: after the first json-labelled fence,
\* else after the first fence, else the whole text
PayloadByCases(txt) ==
    IF Occurrences(txt, <<FENCE, LABEL>>) # {}
    THEN UpToNextFence(txt, Least(Occurrences(txt, <<FENCE, LABEL>>)) + 2)
    ELSE IF Occurrences(txt, <<FENCE>>) # {}
    THEN UpToNextFence(txt, Least(Occurrences(txt, <<FENCE>>)) + 1)
    ELSE txt

\* C10: the payload is the text between the first json-labelled fence and
\* the next fence marker if there is such a fence, else the text between
\* the first pair of fence markers if there is a fence, else the raw text
\* (up to the white space around it); what is parsed is that payload
C10_ExtractionByCases ==
    extracted.done =>
        /\ Strip(extracted.payload) = Strip(PayloadByCases(text))
        /\ extracted.parsed = JsonLoads(PayloadByCases(text))
        /\ JsonLoads(PayloadByCases(text)) # JSONDecodeError
               => extracted.value = JsonLoads(PayloadByCases(text))

\* a text with a fence of each kind was extracted: the document in the
\* json-labelled fence is the result, not the one in the earlier fence
C10_Witness ==
    /\ extracted.done
    /\ text = <<FENCE, DocTok(Obj(EmptyDict)), FENCE, LABEL,
                DocTok(Arr(<<>>))>>
    /\ extracted.parsed = Arr(<<>>)
    /\ extracted.value = Arr(<<>>)

\* C11: when the payload is not JSON the request fails: the error the
\* parser raised is what every caller gets, in the agent (_extract_json) as
\* in the one-shot generator, never an empty result
C11_MalformedResponseRaised ==
    (extracted.done /\ JsonLoads(extracted.payload) = JSONDecodeError)
    => /\ extracted.parsed = JSONDecodeError
       /\ extracted.value = JSONDecodeError

----------------------------------------------------------------------------
(* Rendering one record on its own: every combination of content fields *)

MaxLen == 7

MaxFills == 2

ContentFields ==
    {"title", "subtitle", "bullets", "text", "stat", "description", "context"}

\* the slide types of the mapping, a layout key the mapping does not know
\* and a type no layout is named after
SlideTypes ==
    {"title", "content", "bullets", "stat", "statistics", "data",
     "comparison", "timeline", "quote", "team", "features", "cta", "summary",
     "conclusion", "hero_image", "infographic"}

Bullets(k) == [i \in 1..k |-> ToString(i)]

FieldValue(field, k) ==
    CASE field = "title" -> "Title"
      [] field = "subtitle" -> "Subtitle"
      [] field = "bullets" -> Bullets(k)
      [] field = "text" -> "Text"
      [] field = "stat" -> "95 percent"
      [] field = "description" -> "What it means"
      [] field = "context" -> "Additional context"

\* a slide record with the fields fs, k bullets and the slide type ty
RecordOf(fs, k, ty) ==
    [f \in fs \cup {"slide_type"} |->
        IF f = "slide_type" THEN ty ELSE FieldValue(f, k)]

Records ==
    {RecordOf(fs, k, ty) :
        fs \in SUBSET ContentFields, k \in 0..MaxLen, ty \in SlideTypes}

\* build_single_slide on a generator of the default theme: the slide that
\* copy_slide makes for the record
RenderRecord ==
    /\ rendered = None
    /\ LET prs == CopySlide(NewGenerator("modern_blue", templates),
                            TemplateIdxOf(record), record, 0)
       IN  rendered' = IF prs = <<>> THEN None ELSE prs[1]
    /\ fills' = 1
    /\ UNCHANGED <<record, agentVars, extractVars, boldVars, deckVars,
                   emitVars, appVars, keywordVars>>

\* modify_slide with a patch that changes nothing: the slide populated again
PopulateAgain ==
    /\ rendered # None
    /\ fills < MaxFills
    /\ rendered' = RepopulatedSlides(<<rendered>>, 0, record)[1]
    /\ fills' = fills + 1
    /\ UNCHANGED <<record, agentVars, extractVars, boldVars, deckVars,
                   emitVars, appVars, keywordVars>>

InitRender ==
    /\ IdleAgent
    /\ NoExtraction
    /\ record \in Records
    /\ rendered = None
    /\ fills = 0
    /\ NoBold
    /\ NoDeck
    /\ NoEmit
    /\ NoApp
    /\ NoKeywords

NextRender == RenderRecord \/ PopulateAgain

SpecRender == InitRender /\ [][NextRender]_vars

----------------------------------------------------------------------------
(* The one-shot renderers: bold spans of a bullet string *)

MaxPoint == 8

STAR == "*"

\* the marker ** at position i of the string s
MarkerAt(s, i) == i + 1 <= Len(s) /\ s[i] = STAR /\ s[i + 1] = STAR

\* the line break, which the dot of a pattern does not match
NL == "\n"

\* re.split(r'\*\*(.*?)\*\*', point), compiled without DOTALL: a marker
\* closes the group a marker opens only when no line break lies between
\* them.  The leftmost marker that has such a marker after it opens a group,
\* the nearest marker after it closes the group, and the search goes on
\* behind that marker; the parts are the text before the group, the group,
\* and the parts of the rest
RECURSIVE ReSplit(_)
ReSplit(s) ==
    LET closing(i) == {j \in (i + 2)..Len(s) :
                          /\ MarkerAt(s, j)
                          /\ \A k \in (i + 2)..(j - 1) : s[k] # NL}
        opening == {i \in 1..Len(s) : MarkerAt(s, i) /\ closing(i) # {}}
    IN  IF opening = {} THEN <<s>>
        ELSE LET i == CHOOSE m \in opening : \A n \in opening : m <= n
                 j == CHOOSE m \in closing(i) : \A n \in closing(i) : m <= n
             IN  <<SubSeq(s, 1, i - 1), SubSeq(s, i + 2, j - 1)>>
                 \o ReSplit(SubSeq(s, j + 2, Len(s)))

\* for idx, part in enumerate(parts): an empty part is skipped, every other
\* part is added as a run, bold when idx is odd
RECURSIVE AddRuns(_, _)
AddRuns(parts, idx) ==
    IF idx >= Len(parts) THEN <<>>
    ELSE LET part == parts[idx + 1]
         IN  IF part = <<>> THEN AddRuns(parts, idx + 1)
             ELSE <<[text |-> part, bold |-> idx % 2 = 1]>>
                  \o AddRuns(parts, idx + 1)

\* the runs of the paragraph of a bullet string
ParagraphRuns(pt) == AddRuns(ReSplit(pt), 0)

\* the characters of a bullet string: the star, the line break and any
\* other
BoldAlphabet == {STAR, NL, "A"}

Points == UNION {[1..n -> BoldAlphabet] : n \in 0..MaxPoint}

\* the body of the bullet loop on one string
ParseBold ==
    /\ runs = None
    /\ runs' = Arr(ParagraphRuns(bullet))
    /\ UNCHANGED <<bullet, agentVars, extractVars, renderVars, deckVars,
                   emitVars, appVars, keywordVars>>

InitBold ==
    /\ IdleAgent
    /\ NoExtraction
    /\ NoRender
    /\ bullet \in Points
    /\ runs = None
    /\ NoDeck
    /\ NoEmit
    /\ NoApp
    /\ NoKeywords

NextBold == ParseBold

SpecBold == InitBold /\ [][NextBold]_vars

----------------------------------------------------------------------------
(* The one-shot renderer: create_presentation_from_template *)

MaxDeck == 2

\* the template names create_presentation_from_template has colours for
DeckTemplates ==
    {"ocean_breeze", "sunset_glow", "forest_fresh", "royal_purple",
     "corporate_slate", "modern_blue", "elegant_dark", "vibrant_education"}

\* the colour scheme of a template name
ColorScheme(template_name) ==
    IF template_name \in DeckTemplates THEN template_name ELSE "default"

FileNotFoundError == [t |-> "FileNotFoundError"]

\* what get_image_for_slide and add_picture can do for one slide: a file
\* that embeds, no path, a path without a file, an exception of the fetch,
\* an exception of the embedding
ImageOutcomes == {"ok", "none", "missing_file", "raises", "embed_fails"}

\* the first slide: its title and, when there is content, the first string
\* of the content as the subtitle
TitleSlide(slide_data) ==
    LET points == Get(slide_data, "content", <<>>)
    IN  [kind |-> "title", title |-> slide_data["title"],
         paragraphs |-> IF points # <<>>
                        THEN <<<<[text |-> points[1], bold |-> FALSE]>>>>
                        ELSE <<>>,
         image |-> "none",
         notes |-> Get(slide_data, "notes", "")]

\* the picture area of a content slide with has_image
ImageArea(pexels, outcome) ==
    IF pexels /\ outcome = "ok" THEN "picture" ELSE "placeholder"

\* a later slide: one paragraph per string of the content (the text frame
\* has one paragraph from the start), then the picture area
ContentSlide(slide_data, pexels, outcome) ==
    LET points == Get(slide_data, "content", <<>>)
    IN  [kind |-> "content", title |-> slide_data["title"],
         paragraphs |-> IF points = <<>> THEN <<<<>>>>
                        ELSE [j \in 1..Len(points) |-> ParagraphRuns(points[j])],
         image |-> IF Get(slide_data, "has_image", FALSE)
                   THEN ImageArea(pexels, outcome) ELSE "none",
         notes |-> Get(slide_data, "notes", "")]

\* a sample slide of a template file
SampleSlide ==
    [kind |-> "sample", title |-> "Sample", paragraphs |-> <<>>,
     image |-> "none", notes |-> ""]

\* the slides of a template file: create_templates.py gives each template a
\* title sample and a content sample
TemplateSamples == <<SampleSlide, SampleSlide>>

ClearSlidesOnce(sldIdLst) ==
    IF Len(sldIdLst) > 0 THEN Tail(sldIdLst) ELSE sldIdLst

\* while len(prs.slides) > 0: del prs.slides._sldIdLst[0]
RECURSIVE ClearSlides(_)
ClearSlides(sldIdLst) ==
    IF Len(sldIdLst) > 0 THEN ClearSlides(Tail(sldIdLst)) ELSE sldIdLst

\* create_presentation_from_template, given the template files on disk and
\* what the image service does for each slide
CreatePresentationFromTemplate(template_name, slides_data, files, images, pexels) ==
    IF template_name \notin files THEN FileNotFoundError
    ELSE [t |-> "saved", path |-> "output",
          scheme |-> ColorScheme(template_name),
          slides |-> ClearSlides(TemplateSamples) \o
                     [i \in 1..Len(slides_data) |->
                         IF i = 1 THEN TitleSlide(slides_data[i])
                         ELSE ContentSlide(slides_data[i], pexels, images[i])]]

\* the strings of a slide with k bullets, every other one with a bold term
DeckPoint(j) ==
    IF j % 2 = 1 THEN <<STAR, STAR, ToString(j), STAR, STAR>>
    ELSE <<ToString(j)>>

DeckPoints(k) == [j \in 1..k |-> DeckPoint(j)]

SlideData(k) ==
    [f \in {"title", "content", "notes"} |->
        CASE f = "title" -> "Title"
          [] f = "content" -> DeckPoints(k)
          [] f = "notes" -> "Notes"]

\* the slide dictionaries: has_image true, false or absent
SlideDicts ==
    {SlideData(k) : k \in 0..MaxLen}
    \cup {SlideData(k) @@ ("has_image" :> b) : k \in 0..MaxLen, b \in BOOLEAN}

\* the templates folder: as create_templates.py leaves it, or with a file
\* for every template name
TemplateFolders == {{"modern_blue", "elegant_dark"}, DeckTemplates}

TemplateNames == {"modern_blue", "ocean_breeze", "retro"}

\* a call of the renderer: the image service is asked only for the slides
\* that get a picture area
Requests ==
    {[template_name |-> tn, slides_data |-> sd, files |-> fs, images |-> im] :
        tn \in TemplateNames, fs \in TemplateFolders,
        sd \in UNION {[1..n -> SlideDicts] : n \in 1..MaxDeck},
        im \in UNION {[1..n -> ImageOutcomes] : n \in 1..MaxDeck}}

WellFormedRequest(r) ==
    /\ Len(r.images) = Len(r.slides_data)
    /\ \A i \in 1..Len(r.images) :
          (i = 1 \/ ~Get(r.slides_data[i], "has_image", FALSE))
              => r.images[i] = "none"

CreatePresentation ==
    /\ deck = None
    /\ deck' = CreatePresentationFromTemplate(request.template_name,
                   request.slides_data, request.files, request.images,
                   PEXELS_AVAILABLE)
    /\ UNCHANGED <<request, PEXELS_AVAILABLE, agentVars, extractVars,
                   renderVars, boldVars, emitVars, appVars, keywordVars>>

InitDeck ==
    /\ IdleAgent
    /\ NoExtraction
    /\ NoRender
    /\ NoBold
    /\ request \in {r \in Requests : WellFormedRequest(r)}
    /\ PEXELS_AVAILABLE \in BOOLEAN
    /\ deck = None
    /\ NoEmit
    /\ NoApp
    /\ NoKeywords

NextDeck == CreatePresentation

SpecDeck == InitDeck /\ [][NextDeck]_vars

----------------------------------------------------------------------------
(* Properties of the renderers *)

\* C12: a theme that is unknown or has no template never aborts the
\* rendering: the one-shot renderer saves the presentation whatever the
\* template name is, and a name it has no colours for gets the default
\* colours
C12_UnknownThemeNeverAborts ==
    deck # None =>
        /\ deck.t = "saved"
        /\ request.template_name \notin DeckTemplates
               => deck.scheme = "default"

\* the slide types _map_slide_type_to_layout lists
RecognizedTypes ==
    {"title", "content", "bullets", "stat", "statistics", "data",
     "comparison", "timeline", "quote", "team", "features", "cta", "summary",
     "conclusion"}

\* C13: layout resolution is total. A slide is made for every slide type;
\* a type the mapping does not list gets the template slide of the layout
\* kind content, a listed type resolves to a key of the layout map and gets
\* the template slide of that key, and the template slide is always one of
\* the 15 layout positions
C13_LayoutResolutionTotal ==
    LET ty == record["slide_type"]
    IN  /\ fills > 0 => rendered # None
        /\ rendered # None =>
              /\ rendered.layout \in 0..(NumLayouts - 1)
              /\ ty \notin RecognizedTypes
                     => rendered.layout = LAYOUT_MAP["content"]
              /\ ty \in RecognizedTypes
                     => /\ MapSlideTypeToLayout(ty) \in DOMAIN LAYOUT_MAP
                        /\ rendered.layout
                               = LAYOUT_MAP[MapSlideTypeToLayout(ty)]

\* a slide was made for a type the mapping does not list although a layout
\* is named after it: it is a copy of the content layout
C13_Witness ==
    /\ rendered # None
    /\ record["slide_type"] = "hero_image"
    /\ rendered.layout = 2
    /\ rendered.frames # TemplateFrames(2)

\* the fields of the second placeholder, by priority
SecondPriority == <<"subtitle", "bullets", "text", "stat">>

\* the field of the record that comes first in the priority order
Chosen(rec) ==
    SecondPriority[Least({i \in 1..Len(SecondPriority) :
                             SecondPriority[i] \in DOMAIN rec})]

\* the placeholder after the one of the title
NextPlaceholder(rec) == IF "title" \in DOMAIN rec THEN 2 ELSE 1

\* the paragraphs of a placeholder are those of the field: the string of
\* the field, or bullets of the record in list order
ShowsField(paragraphs, rec, field) ==
    IF field = "bullets"
    THEN \/ rec["bullets"] = <<>> /\ paragraphs = <<"">>
         \/ paragraphs # <<>> /\ IsPrefix(paragraphs, rec["bullets"])
    ELSE paragraphs = <<rec[field]>>

\* C14: the text placeholders are filled from the top: the first one gets
\* the title if the record has one, and the next one gets the field that
\* comes first among subtitle, bullets, text, stat, and no field after it
C14_FilledByPriority ==
    rendered # None =>
        /\ "title" \in DOMAIN record
               => rendered.frames[1] = <<record["title"]>>
        /\ {"subtitle", "bullets", "text", "stat"} \cap DOMAIN record # {}
               => /\ ShowsField(rendered.frames[NextPlaceholder(record)],
                                record, Chosen(record))
                  /\ \A f \in ({"subtitle", "bullets", "text", "stat"}
                                  \cap DOMAIN record) \ {Chosen(record)} :
                        ~ShowsField(rendered.frames[NextPlaceholder(record)],
                                    record, f)

\* a record with a title and all four fields was rendered: the second
\* placeholder shows the subtitle
C14_Witness ==
    /\ rendered # None
    /\ {"title", "subtitle", "bullets", "text", "stat"} \subseteq DOMAIN record
    /\ Len(record["bullets"]) > 1
    /\ rendered.frames[1] = <<"Title">>
    /\ rendered.frames[2] = <<"Subtitle">>

\* the placeholder after the ones of the title and of the second field
FurtherPlaceholder(rec) ==
    NextPlaceholder(rec)
    + (IF {"subtitle", "bullets", "text", "stat"} \cap DOMAIN rec # {}
       THEN 1 ELSE 0)

\* the placeholder shows the description or the context of the record
ShowsFurtherField(paragraphs, rec) ==
    \E f \in {"description", "context"} \cap DOMAIN rec :
        paragraphs = <<rec[f]>>

\* C15: the further placeholder gets the description or the context exactly
\* when the record has a stat or bullets field and a description or context
\* field; in every other case it is as the template has it
C15_FurtherPlaceholder ==
    rendered # None =>
        LET i == FurtherPlaceholder(record)
            due == /\ {"stat", "bullets"} \cap DOMAIN record # {}
                   /\ {"description", "context"} \cap DOMAIN record # {}
        IN  /\ due <=> ShowsFurtherField(rendered.frames[i], record)
            /\ ~due => rendered.frames[i] = TemplateFrames(rendered.layout)[i]

\* the paragraphs of a rendered slide that got text
WrittenParagraphs(sl) ==
    {j \in 1..Len(sl.paragraphs) : sl.paragraphs[j] # <<>>}

\* C16: bullet rendering is capped at 6. A content slide made from a
\* record with k bullets has exactly min(k, 6) written paragraphs, and they
\* are the first min(k, 6) bullets in list order
C16_BulletsCapped ==
    (deck # None /\ deck.t = "saved") =>
        \A i \in 2..Len(deck.slides) :
            LET points == request.slides_data[i]["content"]
                n == IF Len(points) < MaxBullets THEN Len(points)
                     ELSE MaxBullets
            IN  /\ WrittenParagraphs(deck.slides[i]) = 1..n
                /\ \A j \in 1..n :
                      deck.slides[i].paragraphs[j] = ParagraphRuns(points[j])

\* point.split("**"): the pieces between the markers, found from the left
RECURSIVE Pieces(_)
Pieces(s) ==
    IF Contains(s, <<STAR, STAR>>)
    THEN <<SplitHead(s, <<STAR, STAR>>)>> \o Pieces(SplitRest(s, <<STAR, STAR>>))
    ELSE <<s>>

\* the markers pair up from the left; a marker left over is unmatched
MarkerPairs(s) == (Len(Pieces(s)) - 1) \div 2

\* the spans in order: the piece inside the p-th pair is emphasized, the
\* piece before it is plain, and the text after the last pair is plain,
\* with the unmatched marker in it as it was written
SpanAt(s, p) ==
    LET pcs == Pieces(s)
        n == MarkerPairs(s)
    IN  IF p % 2 = 0 THEN [text |-> pcs[p], bold |-> TRUE]
        ELSE IF p < 2 * n + 1 THEN [text |-> pcs[p], bold |-> FALSE]
        ELSE IF Len(pcs) = 2 * n + 1 THEN [text |-> pcs[p], bold |-> FALSE]
        ELSE [text |-> pcs[p] \o <<STAR, STAR>> \o pcs[p + 1], bold |-> FALSE]

RECURSIVE SpansFrom(_, _)
SpansFrom(s, p) ==
    IF p > 2 * MarkerPairs(s) + 1 THEN <<>>
    ELSE IF SpanAt(s, p).text = <<>> THEN SpansFrom(s, p + 1)
    ELSE <<SpanAt(s, p)>> \o SpansFrom(s, p + 1)

RECURSIVE TextOf(_)
TextOf(spans) ==
    IF spans = <<>> THEN <<>> ELSE Head(spans).text \o TextOf(Tail(spans))

\* C17: the spans of a bullet string are the substrings inside the matched
\* pairs of ** markers, emphasized, alternating with the text outside the
\* pairs, plain, without the empty ones; an unmatched marker stays in the
\* plain text of the tail; the characters of the spans are the string
\* without the markers of the matched pairs
C17_BoldSpans ==
    runs # None =>
        /\ runs.v = SpansFrom(bullet, 1)
        /\ \A k \in 1..Len(runs.v) : runs.v[k].text # <<>>
        /\ Len(TextOf(runs.v)) = Len(bullet) - 4 * MarkerPairs(bullet)

\* the placeholders of a slide whose role matches a field of the patch:
\* the first one for the title, the next one for subtitle, bullets, text
\* and stat, the further one for description and context
Addressed(patch, rec) ==
    (IF "title" \in DOMAIN patch THEN {1} ELSE {})
    \cup (IF {"subtitle", "bullets", "text", "stat"} \cap DOMAIN patch # {}
          THEN {NextPlaceholder(rec)} ELSE {})
    \cup (IF {"description", "context"} \cap DOMAIN patch # {}
          THEN {FurtherPlaceholder(rec)} ELSE {})

\* C18: when modify_slide replaces slide i of the file in place with a
\* patch, the placeholders whose role matches no field of the patch show
\* the same text after the call as before it, and the slide has the same
\* shapes and the file the same slides
C18_PatchTouchesItsPlaceholdersOnly ==
    [][\A reply \in PatchTexts :
           (/\ ModifySlideStep(reply)
            /\ last'.result = "content"
            /\ last'.arg < Len(file.slides)
            /\ IsObj(ExtractJson(reply)))
           => LET p == PyIndex(last'.arg, Len(file.slides))
                  rec == slides_content'[PyIndex(last'.arg,
                                                 Len(slides_content))]
                  before == file.slides[p].frames
                  after == file'.slides[p].frames
              IN  /\ Len(file'.slides) = Len(file.slides)
                  /\ Len(after) = Len(before)
                  /\ \A q \in 1..Len(before) :
                         q \notin Addressed(ExtractJson(reply).v, rec)
                             => after[q] = before[q]]_vars

\* C19: every slide whose has_image is true ends with the fetched picture
\* or with the placeholder graphic, one of the two: the picture when the
\* image service is there and fetch and embedding succeed, the placeholder
\* in every other case; no outcome of the image service keeps the
\* presentation from being saved with all its slides
C19_ImageOrPlaceholder ==
    (deck # None /\ request.template_name \in request.files) =>
        /\ deck.t = "saved"
        /\ Len(deck.slides) = Len(request.slides_data)
        /\ \A i \in 1..Len(request.slides_data) :
               Get(request.slides_data[i], "has_image", FALSE)
               => /\ deck.slides[i].image \in {"picture", "placeholder"}
                  /\ deck.slides[i].image = "picture"
                         <=> (PEXELS_AVAILABLE /\ request.images[i] = "ok")

\* C20: rendering is idempotent: when a slide that was filled from a record
\* is filled from the same record again, every text region is after the
\* second fill as it was after the first, whatever fields the record has
C20_RenderingIdempotent ==
    [][(fills >= 1 /\ fills' = fills + 1)
       => /\ record' = record
          /\ rendered' = rendered]_vars

\* a slide was filled twice from a record with more bullets than fit and a
\* context: it shows the title and the first bullets once
C20_Witness ==
    /\ fills = 2
    /\ DOMAIN record = {"slide_type", "title", "bullets", "context"}
    /\ Len(record["bullets"]) = MaxBullets + 1
    /\ rendered.frames[1] = <<"Title">>
    /\ Len(rendered.frames[2]) = MaxBullets

\* ---------------------------------------------------------------------
\* Output file names: app.py's generation handler, generate_ppt,
\* generate_html_ppt and the path of generate_presentation_interactive.
\* A name is a sequence of one-character strings.
\* ---------------------------------------------------------------------

MaxTopic == 52

SAFE_TOPIC_LIMIT == 50

AGENT_TOPIC_LIMIT == 30

\* the characters str.isalnum accepts, among those the model writes
Alnum ==
    {"a", "b", "c", "d", "e", "f", "g", "h", "i", "j", "k", "l", "m", "n",
     "o", "p", "q", "r", "s", "t", "u", "v", "w", "x", "y", "z", "0", "1",
     "2", "3", "4", "5", "6", "7", "8", "9"}

IsAlnum(c) == c \in Alnum

PPTX_EXT == <<".", "p", "p", "t", "x">>

HTML_EXT == <<".", "h", "t", "m", "l">>

PRESENTATION == <<"_", "p", "r", "e", "s", "e", "n", "t", "a", "t", "i", "o", "n">>

\* s[:n]
Take(s, n) == SubSeq(s, 1, IF Len(s) < n THEN Len(s) ELSE n)

EndsWith(s, suffix) ==
    /\ Len(suffix) <= Len(s)
    /\ SubSeq(s, Len(s) - Len(suffix) + 1, Len(s)) = suffix

\* str.strip() on a sequence of characters
RECURSIVE CharStrip(_)
CharStrip(s) ==
    IF s = <<>> THEN s
    ELSE IF Head(s) = " " THEN CharStrip(Tail(s))
    ELSE IF s[Len(s)] = " " THEN CharStrip(SubSeq(s, 1, Len(s) - 1))
    ELSE s

SafeTopicKeeping(chars) == chars

\* "".join(c if c.isalnum() else "_" for c in topic)
SafeTopic(chars) ==
    [i \in 1..Len(chars) |-> IF IsAlnum(chars[i]) THEN chars[i] ELSE "_"]

\* the name generate_ppt and generate_html_ppt use
GeneratedName(chars, output_filename, ext) ==
    IF output_filename = None
    THEN Take(SafeTopic(chars), SAFE_TOPIC_LIMIT) \o PRESENTATION \o ext
    ELSE output_filename.v

\* app.py: the name of the form, stripped and given the format's extension
FormName(custom_filename, is_html) ==
    LET filename == CharStrip(custom_filename)
        ext      == IF is_html THEN HTML_EXT ELSE PPTX_EXT
    IN  IF filename = <<>> THEN None
        ELSE IF EndsWith(filename, ext) THEN Arr(filename)
        ELSE Arr(filename \o ext)

Written(emitter, name, slides) ==
    [emitter |-> emitter, name |-> name, slides |-> slides]

Finished(files) == [t |-> "ok", files |-> files, error |-> "none"]

Failed(files, error) == [t |-> "raise", files |-> files, error |-> error]

\* app.py, the handler of the generate button
AppHandler(j) ==
    LET filename   == FormName(j.custom_filename, j.is_html)
        safe_topic == Take(SafeTopic(j.topic), SAFE_TOPIC_LIMIT)
        html_name  == IF filename = None
                      THEN safe_topic \o PRESENTATION \o HTML_EXT
                      ELSE filename.v
        pptx_name  == IF filename = None
                      THEN safe_topic \o PRESENTATION \o PPTX_EXT
                      ELSE filename.v
        page_file  == Written("create_html_presentation", html_name, j.slides)
    IN  IF CharStrip(j.topic) = <<>> THEN [t |-> "rejected", files |-> <<>>,
                                          error |-> "none"]
        ELSE IF ~j.api_ok THEN Failed(<<>>, "Exception")
        ELSE IF j.is_html
        THEN IF filename = None
             THEN Finished(<<page_file,
                             Written("convert_html_style_to_pptx",
                                     safe_topic \o <<"_">> \o j.template_option
                                         \o PPTX_EXT,
                                     j.slides)>>)
             ELSE Failed(<<page_file>>, "NameError")
        ELSE IF j.template_option \notin j.files
        THEN Failed(<<>>, "FileNotFoundError")
        ELSE Finished(<<Written("create_presentation_from_template",
                                pptx_name, j.slides)>>)

\* generate_ppt / generate_html_ppt: create_presentation_from_template
\* raises when the folder has no file of the template's name
GenerateHandler(j, emitter, ext) ==
    IF ~j.api_ok THEN Failed(<<>>, "Exception")
    ELSE IF /\ emitter = "create_presentation_from_template"
            /\ j.template_name \notin j.files
    THEN Failed(<<>>, "FileNotFoundError")
    ELSE Finished(<<Written(emitter,
                            GeneratedName(j.topic, j.output_filename, ext),
                            j.slides)>>)

\* generate_presentation_interactive: the file name of its output path
InteractiveName(chars, timestamp) ==
    SafeTopic(Take(chars, AGENT_TOPIC_LIMIT)) \o <<"_">> \o timestamp \o PPTX_EXT

\* a topic of n letters whose p-th character is ch (none when p = 0)
TopicOf(n, p, ch) == [i \in 1..n |-> IF i = p THEN ch ELSE "a"]

Topics ==
    { TopicOf(n, p, ch) : n \in 0..MaxTopic, p \in {0, 1, MaxTopic - 2},
                          ch \in {" ", "/"} }

FileNames ==
    { <<>>, <<" ">>, <<"n">>, <<" ", "n", " ">>, <<"n">> \o PPTX_EXT,
      <<"n">> \o HTML_EXT, <<"n">> \o PPTX_EXT \o <<" ">> }

OCEAN_BREEZE ==
    <<"o", "c", "e", "a", "n", "_", "b", "r", "e", "e", "z", "e">>
SUNSET_GLOW ==
    <<"s", "u", "n", "s", "e", "t", "_", "g", "l", "o", "w">>
FOREST_FRESH ==
    <<"f", "o", "r", "e", "s", "t", "_", "f", "r", "e", "s", "h">>
ROYAL_PURPLE ==
    <<"r", "o", "y", "a", "l", "_", "p", "u", "r", "p", "l", "e">>
CORPORATE_SLATE ==
    <<"c", "o", "r", "p", "o", "r", "a", "t", "e", "_", "s", "l", "a", "t", "e">>
VIBRANT_EDUCATION ==
    <<"v", "i", "b", "r", "a", "n", "t", "_", "e", "d", "u", "c", "a", "t", "i", "o", "n">>
MODERN_BLUE ==
    <<"m", "o", "d", "e", "r", "n", "_", "b", "l", "u", "e">>
ELEGANT_DARK ==
    <<"e", "l", "e", "g", "a", "n", "t", "_", "d", "a", "r", "k">>

\* the style offered for a page, and the templates offered for a deck
HtmlStyles == { <<"d", "a", "r", "k">> }

PptxTemplates == { OCEAN_BREEZE, MODERN_BLUE }

TemplateOptions(is_html) == IF is_html THEN HtmlStyles ELSE PptxTemplates

\* the names of the files of templates/: the two files create_templates.py
\* makes, or one file for each template offered
TemplateFiles ==
    { {MODERN_BLUE, ELEGANT_DARK},
      {OCEAN_BREEZE, SUNSET_GLOW, FOREST_FRESH, ROYAL_PURPLE, CORPORATE_SLATE,
       VIBRANT_EDUCATION, MODERN_BLUE, ELEGANT_DARK} }

Timestamps ==
    { <<"2", "0", "2", "5", "0", "1", "3", "1", "_", "0", "9", "0", "0", "5", "9">> }

SlideLists == { <<SlideData(0)>>, <<SlideData(1), SlideData(0)>> }

Jobs ==
    UNION { { [entry |-> "app", topic |-> tp, custom_filename |-> fn,
               is_html |-> h, template_option |-> opt, files |-> fs,
               api_ok |-> ok, slides |-> sl] :
                tp \in Topics, fn \in FileNames,
                opt \in TemplateOptions(h), fs \in TemplateFiles,
                ok \in BOOLEAN, sl \in {<<SlideData(0)>>} } :
            h \in BOOLEAN }
    \cup
    { [entry |-> "generate_ppt", topic |-> tp, template_name |-> tn,
       output_filename |-> fn, files |-> fs, api_ok |-> ok, slides |-> sl] :
        tp \in Topics, tn \in PptxTemplates,
        fn \in {None} \cup { Arr(n) : n \in {<<"n">>, <<"n">> \o PPTX_EXT,
                                             <<"n">> \o HTML_EXT} },
        fs \in TemplateFiles, ok \in BOOLEAN, sl \in {<<SlideData(0)>>} }
    \cup
    { [entry |-> "generate_html_ppt", topic |-> tp, output_filename |-> fn,
       api_ok |-> ok, slides |-> sl] :
        tp \in Topics,
        fn \in {None} \cup { Arr(n) : n \in {<<"n">>, <<"n">> \o PPTX_EXT,
                                             <<"n">> \o HTML_EXT} },
        ok \in BOOLEAN, sl \in {<<SlideData(0)>>} }
    \cup
    { [entry |-> "interactive", topic |-> tp, timestamp |-> ts] :
        tp \in Topics, ts \in Timestamps }

AppGenerate ==
    /\ job # None /\ run_result = None
    /\ job.entry = "app"
    /\ run_result' = AppHandler(job)
    /\ UNCHANGED <<job, agentVars, extractVars, renderVars, boldVars,
                   deckVars, emitVars, keywordVars>>

GeneratePpt ==
    /\ job # None /\ run_result = None
    /\ job.entry = "generate_ppt"
    /\ run_result' = GenerateHandler(job, "create_presentation_from_template",
                                     PPTX_EXT)
    /\ UNCHANGED <<job, agentVars, extractVars, renderVars, boldVars,
                   deckVars, emitVars, keywordVars>>

GenerateHtmlPpt ==
    /\ job # None /\ run_result = None
    /\ job.entry = "generate_html_ppt"
    /\ run_result' = GenerateHandler(job, "create_html_presentation", HTML_EXT)
    /\ UNCHANGED <<job, agentVars, extractVars, renderVars, boldVars,
                   deckVars, emitVars, keywordVars>>

InteractiveOutputPath ==
    /\ job # None /\ run_result = None
    /\ job.entry = "interactive"
    /\ run_result' =
           Finished(<<Written("generate_presentation_interactive",
                              InteractiveName(job.topic, job.timestamp),
                              <<>>)>>)
    /\ UNCHANGED <<job, agentVars, extractVars, renderVars, boldVars,
                   deckVars, emitVars, keywordVars>>

InitApp ==
    /\ IdleAgent
    /\ NoExtraction
    /\ NoRender
    /\ NoBold
    /\ NoDeck
    /\ NoEmit
    /\ NoKeywords
    /\ job \in Jobs
    /\ run_result = None

NextApp == AppGenerate \/ GeneratePpt \/ GenerateHtmlPpt \/ InteractiveOutputPath

SpecApp == InitApp /\ [][NextApp]_vars

\* ---------------------------------------------------------------------
\* C21: output file names
\* ---------------------------------------------------------------------

\* the run derived its file names from the topic
NameDerived(j) ==
    \/ j.entry = "interactive"
    \/ j.entry = "app" /\ CharStrip(j.custom_filename) = <<>>
    \/ j.entry \in {"generate_ppt", "generate_html_ppt"}
           /\ j.output_filename = None

CanonicalExtension(f) ==
    IF f.emitter = "create_html_presentation" THEN HTML_EXT ELSE PPTX_EXT

TopicLimit(j) ==
    IF j.entry = "interactive" THEN AGENT_TOPIC_LIMIT ELSE SAFE_TOPIC_LIMIT

FileCharsOnly(s) == \A i \in 1..Len(s) : IsAlnum(s[i]) \/ s[i] = "_"

\* what follows the topic part of a derived name, before the extension
FixedSuffixes(j) ==
    IF j.entry = "interactive" THEN { <<"_">> \o j.timestamp }
    ELSE IF j.entry = "app"
    THEN { PRESENTATION, <<"_">> \o j.template_option }
    ELSE { PRESENTATION }

\* the name starts with the topic, cut at the limit, each character kept
\* when alphanumeric and an underscore otherwise
StartsWithTopic(name, j) ==
    LET len == IF Len(j.topic) < TopicLimit(j) THEN Len(j.topic)
               ELSE TopicLimit(j)
    IN  /\ len <= Len(name)
        /\ \A i \in 1..len :
               name[i] = IF IsAlnum(j.topic[i]) THEN j.topic[i] ELSE "_"
        /\ \E suffix \in FixedSuffixes(j) :
               SubSeq(name, len + 1, Len(name)) = suffix
        /\ FileCharsOnly(SubSeq(name, 1, len))

RunFiles == IF run_result = None THEN {}
            ELSE { run_result.files[i] : i \in 1..Len(run_result.files) }

Stem(f) ==
    SubSeq(f.name, 1, Len(f.name) - Len(CanonicalExtension(f)))

\* C21 as stated: a derived name is a stem of alphanumerics and
\* underscores no longer than the maximum length, followed by the canonical
\* extension, and a supplied name always ends with the canonical extension.
C21_StemWithinLimit ==
    \A f \in RunFiles :
        /\ EndsWith(f.name, CanonicalExtension(f))
        /\ NameDerived(job) =>
               /\ FileCharsOnly(Stem(f))
               /\ Len(Stem(f)) <= TopicLimit(job)

\* C21: a derived name is the topic with every non-alphanumeric character
\* replaced by an underscore and cut at the entry point's limit, then a
\* fixed suffix, then the canonical extension: the topic part holds only
\* alphanumerics and underscores and is never longer than the limit.  A name
\* given in the app's form, once stripped, is kept and ends with the
\* canonical extension; generate_ppt and generate_html_ppt use a given name
\* as it is.
C21_DerivedNames ==
    \A f \in RunFiles :
        IF NameDerived(job)
        THEN /\ EndsWith(f.name, CanonicalExtension(f))
             /\ StartsWithTopic(Stem(f), job)
        ELSE IF job.entry = "app"
        THEN /\ EndsWith(f.name, CanonicalExtension(f))
             /\ Take(f.name, Len(CharStrip(job.custom_filename)))
                    = CharStrip(job.custom_filename)
             /\ Len(f.name) <= Len(CharStrip(job.custom_filename))
                                   + Len(CanonicalExtension(f))
        ELSE f.name = job.output_filename.v

C21_Witness ==
    /\ job # None /\ run_result # None
    /\ job.entry = "generate_ppt"
    /\ job.output_filename = None
    /\ Len(job.topic) > SAFE_TOPIC_LIMIT
    /\ \E i \in 1..SAFE_TOPIC_LIMIT : ~IsAlnum(job.topic[i])
    /\ run_result.t = "ok"
    /\ Len(run_result.files) = 1

\* C29: a run of the app that asks for the standalone page writes the page
\* and the secondary presentation from the same slide list, with a supplied
\* name as with a derived one; no run stops after the first file and before
\* the second.
C29_PageRunWritesBoth ==
    (/\ job # None /\ run_result # None
     /\ job.entry = "app" /\ job.is_html
     /\ Len(run_result.files) >= 1)
        => /\ run_result.t = "ok"
           /\ Len(run_result.files) = 2
           /\ run_result.files[1].emitter = "create_html_presentation"
           /\ run_result.files[2].emitter = "convert_html_style_to_pptx"
           /\ run_result.files[1].slides = job.slides
           /\ run_result.files[2].slides = job.slides

\* ---------------------------------------------------------------------
\* The three one-shot emitters on one request, and the generated page in
\* the browser
\* ---------------------------------------------------------------------

MaxEmit == 3

\* convert_html_style_to_pptx: a new presentation, one slide per entry
ConvertHtmlStyleToPptx(slides_data, images, pexels) ==
    [t |-> "saved", path |-> "output",
     slides |-> [i \in 1..Len(slides_data) |->
                    IF i = 1 THEN TitleSlide(slides_data[i])
                    ELSE ContentSlide(slides_data[i], pexels, images[i])]]

\* re.sub(r'\*\*(.*?)\*\*', '<strong ...>\1</strong>', point): the pieces
\* of the point in order, every second one inside <strong>
FormattedPoint(point) ==
    LET parts == ReSplit(point)
    IN  [j \in 1..Len(parts) |-> [text |-> parts[j], strong |-> j % 2 = 0]]

NotesBlock(txt) == [t |-> "notes", v |-> txt]

\* the first <div class="slide">: title and subtitle, no notes block
PageTitleSlide(slide_data) ==
    LET points == Get(slide_data, "content", <<>>)
    IN  [kind |-> "title", title |-> slide_data["title"],
         points |-> IF points # <<>> THEN <<points[1]>> ELSE <<<<>>>>,
         image |-> "none", notes |-> None, classes |-> {"slide", "active"}]

\* a later <div class="slide">: the points, the picture area, the notes
\* block with id notes-<idx>
PageContentSlide(slide_data, pexels, outcome) ==
    LET points == Get(slide_data, "content", <<>>)
    IN  [kind |-> "content", title |-> slide_data["title"],
         points |-> [j \in 1..Len(points) |-> FormattedPoint(points[j])],
         image |-> IF Get(slide_data, "has_image", FALSE)
                   THEN ImageArea(pexels, outcome) ELSE "none",
         notes |-> NotesBlock(Get(slide_data, "notes", "")),
         classes |-> {"slide"}]

\* create_html_presentation
CreateHtmlPresentationOf(slides_data, images, pexels) ==
    [t |-> "saved", path |-> "output",
     slides |-> [i \in 1..Len(slides_data) |->
                    IF i = 1 THEN PageTitleSlide(slides_data[i])
                    ELSE PageContentSlide(slides_data[i], pexels, images[i])]]

\* the slide dictionary at position i: with a point and notes, with a
\* picture area, or with a title only
EmitSlide(i, variant) ==
    LET base == [f \in {"title"} |-> "T" \o ToString(i)]
    IN  CASE variant = "plain" ->
                 base @@ ("content" :> DeckPoints(1))
                      @@ ("notes" :> "N" \o ToString(i))
          [] variant = "image" ->
                 base @@ ("content" :> DeckPoints(2))
                      @@ ("notes" :> "N" \o ToString(i))
                      @@ ("has_image" :> TRUE)
          [] variant = "bare" -> base

EmitVariants == {"plain", "image", "bare"}

EmitSlideLists ==
    { [i \in 1..Len(vs) |-> EmitSlide(i, vs[i])] :
        vs \in UNION {[1..n -> EmitVariants] : n \in 0..MaxEmit} }

\* the calls of the emitters: one slide list, the templates folder, what
\* the image service does for each slide with a picture area
EmitRequests ==
    {[template_name |-> tn, slides_data |-> sd, files |-> fs, images |-> im] :
        tn \in {"modern_blue", "retro"}, fs \in TemplateFolders,
        sd \in EmitSlideLists,
        im \in UNION {[1..n -> {"ok", "none", "raises"}] : n \in 0..MaxEmit}}

ConvertHtmlStyle ==
    /\ request # None /\ converted = None
    /\ converted' = ConvertHtmlStyleToPptx(request.slides_data, request.images,
                                           PEXELS_AVAILABLE)
    /\ UNCHANGED <<page, browser, agentVars, extractVars, renderVars, boldVars,
                   deckVars, appVars, keywordVars>>

CreateHtmlPresentation ==
    /\ request # None /\ page = None
    /\ page' = CreateHtmlPresentationOf(request.slides_data, request.images,
                                        PEXELS_AVAILABLE)
    /\ UNCHANGED <<converted, browser, agentVars, extractVars, renderVars,
                   boldVars, deckVars, appVars, keywordVars>>

InitEmit ==
    /\ IdleAgent
    /\ NoExtraction
    /\ NoRender
    /\ NoBold
    /\ request \in {r \in EmitRequests : WellFormedRequest(r)}
    /\ PEXELS_AVAILABLE \in BOOLEAN
    /\ deck = None
    /\ NoEmit
    /\ NoApp
    /\ NoKeywords

NextEmit == CreatePresentation \/ ConvertHtmlStyle \/ CreateHtmlPresentation

SpecEmit == InitEmit /\ [][NextEmit]_vars

\* ---- the script of the generated page ----

\* the page once loaded: the classes of the markup, then the script up to
\* showSlide(0); the keydown listener is registered after that call
ShowSlide(b, index) ==
    IF index \in 0..(b.totalSlides - 1)
    THEN [b EXCEPT !.active = {index}, !.currentSlide = index]
    ELSE [b EXCEPT !.active = {}, !.error = TRUE]

NextSlideUnguarded(b) == ShowSlide(b, b.currentSlide + 1)

NextSlide(b) ==
    IF b.currentSlide < b.totalSlides - 1
    THEN ShowSlide(b, b.currentSlide + 1) ELSE b

PrevSlide(b) ==
    IF b.currentSlide > 0 THEN ShowSlide(b, b.currentSlide - 1) ELSE b

\* the slides of the page that have a notes block
WithNotes(pg) == {i \in 0..(Len(pg.slides) - 1) : pg.slides[i + 1].notes # None}

ToggleNotes(b) ==
    IF b.currentSlide \in b.notes
    THEN [b EXCEPT !.hidden = IF b.currentSlide \in b.hidden
                               THEN b.hidden \ {b.currentSlide}
                               ELSE b.hidden \cup {b.currentSlide}]
    ELSE b

\* toggleFullscreen only calls requestFullscreen or exitFullscreen: the call
\* is in flight when the handler returns, and document.fullscreenElement
\* changes later
ToggleFullscreen(b) ==
    [b EXCEPT !.pending = Append(@, IF ~b.fullscreen THEN "requestFullscreen"
                                    ELSE "exitFullscreen")]

\* the browser completes the oldest call in flight: a request it grants
\* makes the page fullscreen, a request it refuses changes nothing, an exit
\* leaves fullscreen
CompleteFullscreen(b, granted) ==
    [b EXCEPT !.pending = Tail(@),
              !.fullscreen = IF Head(b.pending) = "requestFullscreen"
                             THEN b.fullscreen \/ granted
                             ELSE FALSE]

ToggleShortcuts(b) == [b EXCEPT !.shortcuts_hidden = ~b.shortcuts_hidden]

LoadPage(pg) ==
    LET n == Len(pg.slides)
        loaded == [t |-> "open", currentSlide |-> 0, totalSlides |-> n,
                   active |-> {i \in 0..(n - 1) :
                                  "active" \in pg.slides[i + 1].classes},
                   notes |-> WithNotes(pg), hidden |-> WithNotes(pg),
                   fullscreen |-> FALSE, pending |-> <<>>,
                   shortcuts_hidden |-> TRUE,
                   error |-> FALSE, listening |-> FALSE]
        shown == ShowSlide(loaded, 0)
    IN  IF shown.error THEN shown ELSE [shown EXCEPT !.listening = TRUE]

Keys == {"ArrowRight", " ", "ArrowLeft", "n", "N", "f", "F", "Escape"}

OnKeyDown(b, key) ==
    IF key = "ArrowRight" \/ key = " " THEN NextSlide(b)
    ELSE IF key = "ArrowLeft" THEN PrevSlide(b)
    ELSE IF key = "n" \/ key = "N" THEN ToggleNotes(b)
    ELSE IF key = "f" \/ key = "F" THEN ToggleFullscreen(b)
    ELSE b

Buttons == {"prevSlide", "nextSlide", "toggleNotes", "toggleFullscreen",
            "toggleShortcuts"}

OnClick(b, button) ==
    CASE button = "prevSlide" -> PrevSlide(b)
      [] button = "nextSlide" -> NextSlide(b)
      [] button = "toggleNotes" -> ToggleNotes(b)
      [] button = "toggleFullscreen" -> ToggleFullscreen(b)
      [] button = "toggleShortcuts" -> ToggleShortcuts(b)

OpenPage ==
    /\ page # None /\ browser = None
    /\ browser' = LoadPage(page)
    /\ UNCHANGED <<converted, page, agentVars, extractVars, renderVars,
                   boldVars, deckVars, appVars, keywordVars>>

Click(button) ==
    /\ browser # None
    /\ button = "toggleFullscreen" => Len(browser.pending) < MaxPending
    /\ browser' = OnClick(browser, button)
    /\ UNCHANGED <<converted, page, agentVars, extractVars, renderVars,
                   boldVars, deckVars, appVars, keywordVars>>

KeyDown(key) ==
    /\ browser # None
    /\ browser.listening
    /\ key \in {"f", "F"} => Len(browser.pending) < MaxPending
    /\ browser' = OnKeyDown(browser, key)
    /\ UNCHANGED <<converted, page, agentVars, extractVars, renderVars,
                   boldVars, deckVars, appVars, keywordVars>>

\* the fullscreen transition of the browser, between two events of the page
FullscreenChange(granted) ==
    /\ browser # None
    /\ browser.pending # <<>>
    /\ browser' = CompleteFullscreen(browser, granted)
    /\ UNCHANGED <<converted, page, agentVars, extractVars, renderVars,
                   boldVars, deckVars, appVars, keywordVars>>

InitPage ==
    /\ IdleAgent
    /\ NoExtraction
    /\ NoRender
    /\ NoBold
    /\ request \in {r \in EmitRequests : /\ WellFormedRequest(r)
                                         /\ r.template_name = "modern_blue"
                                         /\ r.files = DeckTemplates}
    /\ PEXELS_AVAILABLE \in BOOLEAN
    /\ deck = None
    /\ NoEmit
    /\ NoApp
    /\ NoKeywords

NextPage ==
    \/ CreateHtmlPresentation
    \/ OpenPage
    \/ \E button \in Buttons : Click(button)
    \/ \E key \in Keys : KeyDown(key)
    \/ \E granted \in BOOLEAN : FullscreenChange(granted)

SpecPage == InitPage /\ [][NextPage]_vars

\* ---------------------------------------------------------------------
\* Properties of the one-shot emitters
\* ---------------------------------------------------------------------

\* what the emitters have written so far
Emitted ==
    (IF deck # None /\ deck.t = "saved" THEN {deck} ELSE {})
        \cup (IF converted # None THEN {converted} ELSE {})
        \cup (IF page # None THEN {page} ELSE {})

\* C22: both formats carry the speaker notes of every slide of the input,
\* the first (title) slide included: the notes string is in the binary
\* presentation and in the standalone page.
C22_NotesInBothFormats ==
    \A i \in 1..Len(request.slides_data) :
        LET notes == Get(request.slides_data[i], "notes", "")
        IN  /\ (deck # None /\ deck.t = "saved") => deck.slides[i].notes = notes
            /\ converted # None => converted.slides[i].notes = notes
            /\ page # None => page.slides[i].notes = NotesBlock(notes)

\* C25: each one-shot emitter writes exactly one slide per entry of
\* slides_data, in the order of the input; the slide at index 0, and only
\* that one, has the title layout; no sample slide of the template is left.
C25_CountAndOrderKept ==
    \A out \in Emitted :
        /\ Len(out.slides) = Len(request.slides_data)
        /\ \A i \in 1..Len(out.slides) :
               /\ out.slides[i].title = request.slides_data[i]["title"]
               /\ out.slides[i].kind = IF i = 1 THEN "title" ELSE "content"

C25_Witness ==
    /\ deck # None /\ deck.t = "saved"
    /\ converted # None
    /\ page # None
    /\ Len(request.slides_data) = MaxEmit
    /\ Len(deck.slides) = MaxEmit
    /\ Len(TemplateSamples) > 0

\* ---------------------------------------------------------------------
\* Properties of the generated page
\* ---------------------------------------------------------------------

\* the index is in range and the slide at the index is the one active slide
OneActiveSlide(b) ==
    /\ b.currentSlide \in 0..(Len(request.slides_data) - 1)
    /\ b.active = {b.currentSlide}

\* C30 as stated, for every slide list: after any sequence of events the
\* current index is within 0..n-1 and exactly the slide at the index is
\* active.
C30_OneActiveForEveryList ==
    browser # None => OneActiveSlide(browser)

\* C30: in the page of a slide list that is not empty, after any sequence
\* of clicks and key presses the current index is within 0..n-1 and exactly
\* the slide at the index is active; next on the last slide and previous on
\* the first slide, by button or by key, change nothing.
\* In the page of the empty list the index stays 0, no slide is active and
\* the keyboard handler is never registered.
C30_NavigationInRange ==
    /\ (browser # None /\ Len(request.slides_data) = 0) =>
           /\ browser.currentSlide = 0
           /\ browser.active = {}
           /\ ~browser.listening
    /\ (browser # None /\ Len(request.slides_data) > 0) =>
        /\ OneActiveSlide(browser)
        /\ browser.totalSlides = Len(request.slides_data)
        /\ browser.currentSlide = browser.totalSlides - 1 =>
               /\ OnClick(browser, "nextSlide") = browser
               /\ OnKeyDown(browser, "ArrowRight") = browser
               /\ OnKeyDown(browser, " ") = browser
        /\ browser.currentSlide = 0 =>
               /\ OnClick(browser, "prevSlide") = browser
               /\ OnKeyDown(browser, "ArrowLeft") = browser

C30_Witness ==
    /\ browser # None
    /\ browser.totalSlides = MaxEmit
    /\ browser.currentSlide = MaxEmit - 1
    /\ browser.active = {MaxEmit - 1}
    /\ browser.hidden # browser.notes

\* ---------------------------------------------------------------------
\* Properties of the session, continued
\* ---------------------------------------------------------------------

\* C23: modify_slide(i, feedback) changes only the record of slide i: the
\* outline, with every entry's number, type, topic and description, and
\* every other record are the same after the call as before it.
C23_FeedbackChangesOneRecord ==
    [][\A reply \in PatchTexts :
           ModifySlideStep(reply)
           => /\ outline' = outline
              /\ OthersUnchanged({PyIndex(last'.arg, Len(slides_content))})]_vars

\* the second of two records took a patch and the first did not
C23_Witness ==
    /\ last.op = "modify_slide" /\ last.result = "content" /\ last.arg = 1
    /\ Len(slides_content) = 2
    /\ slides_content[2]["title"] = "New Title"
    /\ slides_content[1]["title"] # "New Title"
    /\ IsObj(outline)

\* the index addresses no existing record: too large, or negative
NoSuchRecord(slide_index) ==
    slide_index >= Len(slides_content) \/ slide_index < 0

\* C26: build_single_slide and modify_slide turn down a call they cannot
\* serve and change nothing: with no theme selected, or with an index that
\* addresses no existing record (too large or negative), the call returns
\* None and the records, the document in memory and the output file are as
\* before.
C26_RejectedCallsChangeNothing ==
    [][/\ (/\ last'.op = "build_single_slide"
           /\ BuildSingleSlide(last'.arg)
           /\ (ppt_generator = None \/ NoSuchRecord(last'.arg)))
          => /\ last'.result = "None"
             /\ UNCHANGED <<slides_content, ppt_generator, file>>
       /\ \A reply \in PatchTexts :
              (/\ ModifySlideStep(reply)
               /\ (ppt_generator = None \/ NoSuchRecord(last'.arg)))
              => /\ last'.result = "None"
                 /\ UNCHANGED <<slides_content, ppt_generator, file>>]_vars

\* C27: build_single_slide returns the path of the saved file only for a
\* slide it has added: the saved document then holds exactly one slide more
\* than before the call, and that slide is rendered from the record asked
\* for.
C27_PathMeansSlideAdded ==
    [][(/\ last'.op = "build_single_slide"
        /\ BuildSingleSlide(last'.arg)
        /\ last'.result = "path")
       => LET pos == PyIndex(last'.arg, Len(slides_content))
          IN  /\ file'.exists
              /\ Len(file'.slides) = Len(file.slides) + 1
              /\ Len(file'.slides) = Len(ppt_generator.prs) + 1
              /\ file'.slides[Len(file'.slides)].of = pos
              /\ Shows(file'.slides[Len(file'.slides)],
                       slides_content[pos])]_vars

\* the patch texts that json.loads cannot parse
MalformedPatchTexts == {reply \in PatchTexts :
                           JsonLoads(RemoveCodeBlocks(reply)) = JSONDecodeError}

\* C28: a patch text that cannot be parsed leaves the session as it was:
\* after modify_slide(i) with such a text the record at index i and slide i
\* of the output file are the same as before the call.
C28_MalformedPatchChangesNothing ==
    [][\A reply \in MalformedPatchTexts :
           ModifySlideStep(reply)
           => /\ slides_content' = slides_content
              /\ file'.exists = file.exists
              /\ Len(file'.slides) = Len(file.slides)
              /\ \A p \in 1..Len(file.slides) :
                     file'.slides[p] = file.slides[p]]_vars

\* ---------------------------------------------------------------------
\* The image-search query: extract_search_keywords.  A title is the
\* sequence of its words, a word a sequence of characters
\* ---------------------------------------------------------------------

MaxWords == 5

MaxKeywords == 4

\* stop_words
STOP_WORDS ==
    { <<"t", "h", "e">>, <<"a">>, <<"a", "n">>, <<"a", "n", "d">>,
      <<"o", "r">>, <<"b", "u", "t">>, <<"i", "n">>, <<"o", "n">>,
      <<"a", "t">>, <<"t", "o">>, <<"f", "o", "r">>, <<"o", "f">>,
      <<"w", "i", "t", "h">>, <<"b", "y">>, <<"f", "r", "o", "m">>,
      <<"a", "s">>, <<"i", "s">>, <<"w", "a", "s">>, <<"a", "r", "e">>,
      <<"w", "e", "r", "e">>, <<"b", "e", "e", "n">>, <<"b", "e">>,
      <<"h", "a", "v", "e">>, <<"h", "a", "s">>, <<"h", "a", "d">>,
      <<"d", "o">>, <<"d", "o", "e", "s">>, <<"d", "i", "d">>,
      <<"w", "i", "l", "l">>, <<"w", "o", "u", "l", "d">>,
      <<"c", "o", "u", "l", "d">>, <<"s", "h", "o", "u", "l", "d">>,
      <<"m", "a", "y">>, <<"m", "i", "g", "h", "t">>, <<"m", "u", "s", "t">>,
      <<"c", "a", "n">>, <<"a", "b", "o", "u", "t">>, <<"i", "n", "t", "o">>,
      <<"t", "h", "r", "o", "u", "g", "h">>,
      <<"d", "u", "r", "i", "n", "g">>, <<"b", "e", "f", "o", "r", "e">>,
      <<"a", "f", "t", "e", "r">>, <<"a", "b", "o", "v", "e">>,
      <<"b", "e", "l", "o", "w">>, <<"b", "e", "t", "w", "e", "e", "n">>,
      <<"u", "n", "d", "e", "r">>, <<"w", "h", "a", "t">>, <<"w", "h", "y">>,
      <<"h", "o", "w">>, <<"w", "h", "e", "n">>, <<"w", "h", "e", "r", "e">>,
      <<"w", "h", "o">>, <<"w", "h", "i", "c", "h">>, <<"t", "h", "i", "s">>,
      <<"t", "h", "a", "t">>, <<"t", "h", "e", "s", "e">>,
      <<"t", "h", "o", "s", "e">>,
      <<"i", "n", "t", "r", "o", "d", "u", "c", "t", "i", "o", "n">>,
      <<"o", "v", "e", "r", "v", "i", "e", "w">>,
      <<"c", "o", "n", "c", "l", "u", "s", "i", "o", "n">>,
      <<"s", "u", "m", "m", "a", "r", "y">> }

\* str.lower on the letters the titles hold
LowerChar(c) ==
    CASE c = "A" -> "a" [] c = "C" -> "c" [] c = "I" -> "i"
      [] c = "O" -> "o" [] c = "T" -> "t" [] c = "W" -> "w"
      [] OTHER -> c

Lower(word) == [i \in 1..Len(word) |-> LowerChar(word[i])]

\* word not in stop_words and len(word) > 2
IsKeyword(word) == word \notin STOP_WORDS /\ Len(word) > 2

KeywordsKeepingStopWords(words) ==
    LET Long(word) == Len(word) > 2 IN SelectSeq(words, Long)

\* [word for word in words if word not in stop_words and len(word) > 2]
Keywords(words) == SelectSeq(words, IsKeyword)

\* extract_search_keywords(slide_title): the terms of the query, which are
\* joined by single spaces; the title itself when no keyword is left
ExtractSearchKeywords(title) ==
    LET words    == [i \in 1..Len(title) |-> Lower(title[i])]
        keywords == Keywords(words)
    IN  IF keywords # <<>>
        THEN SubSeq(keywords, 1,
                    IF Len(keywords) < MaxKeywords THEN Len(keywords)
                    ELSE MaxKeywords)
        ELSE title

TitleWords ==
    { <<"T", "h", "e">>, <<"o", "f">>, <<"A", "I">>,
      <<"W", "a", "t", "e", "r">>, <<"C", "y", "c", "l", "e">>, <<"O", "v", "e", "r", "v", "i", "e", "w">> }

SlideTitles == UNION {[1..n -> TitleWords] : n \in 0..MaxWords}

BuildSearchQuery ==
    /\ slide_title # None /\ search_query = None
    /\ search_query' = Arr(ExtractSearchKeywords(slide_title.v))
    /\ UNCHANGED <<slide_title, agentVars, extractVars, renderVars, boldVars,
                   deckVars, emitVars, appVars>>

InitKeywords ==
    /\ IdleAgent
    /\ NoExtraction
    /\ NoRender
    /\ NoBold
    /\ NoDeck
    /\ NoEmit
    /\ NoApp
    /\ slide_title \in {Arr(title) : title \in SlideTitles}
    /\ search_query = None

NextKeywords == BuildSearchQuery

SpecKeywords == InitKeywords /\ [][NextKeywords]_vars

\* the positions of the title's words that are keywords once lower-cased
KeywordPositions(title) ==
    {p \in 1..Len(title) : /\ Lower(title[p]) \notin STOP_WORDS
                           /\ Len(title[p]) > 2}

\* C24 as stated, for every slide title: the query holds no stop word and at
\* most 4 terms.
C24_NoStopWordAtMostFour ==
    search_query # None =>
        /\ Len(search_query.v) <= MaxKeywords
        /\ \A k \in 1..Len(search_query.v) :
               Lower(search_query.v[k]) \notin STOP_WORDS

\* C24: when the title has a word of more than two characters that is not a
\* stop word, the query is the first 4 such words in the order of the
\* title, lower-cased: no stop word, at most 4 terms.  When it has none, the
\* query is the title as it is.
C24_KeywordsOrTitle ==
    search_query # None =>
        LET title == slide_title.v
            query == search_query.v
            kept  == KeywordPositions(title)
        IN  IF kept = {} THEN query = title
            ELSE /\ Len(query) <= MaxKeywords
                 /\ Len(query) = IF Cardinality(kept) < MaxKeywords
                                 THEN Cardinality(kept) ELSE MaxKeywords
                 /\ \A k \in 1..Len(query) :
                        /\ query[k] \notin STOP_WORDS
                        /\ \E p \in kept :
                               /\ Cardinality({q \in kept : q <= p}) = k
                               /\ query[k] = Lower(title[p])

C24_Witness ==
    /\ search_query # None
    /\ Len(slide_title.v) = MaxWords
    /\ Cardinality(KeywordPositions(slide_title.v)) = MaxWords - 1
    /\ \E p \in 1..Len(slide_title.v) : Lower(slide_title.v[p]) \in STOP_WORDS
    /\ Len(search_query.v) = MaxKeywords

====
